---- MODULE Spec2Model ----
(***************************************************************************)
(* Model of the live-poker-bench hand engine (engine/game.py,              *)
(* engine/actions.py, engine/blinds.py) and of the observation builder of  *)
(* the tournament runner (tournament/runner.py).                           *)
(*                                                                         *)
(* Cards are abstracted: community_cards is the number of board cards and  *)
(* hand_rank[s] is the value evaluate_hand returns for seat s at showdown  *)
(* (smaller is stronger).  None is modelled as seat 0.                     *)
(***************************************************************************)
EXTENDS Integers, Sequences, FiniteSets, TLC

VARIABLES players, button_seat, hand_number, street, community_cards, pot,
          side_pots, current_bet, min_raise, last_raiser, actions, action_to,
          hand_complete, hand_rank, start_total, ret, call, obs,
          legal_in, legal_out

\* one decision of LLMAgent.get_action: the observation it was given, its
\* local retries, the model calls made by the running call_with_tools, the
\* calls of call_with_tools made so far, the AgentAction returned, and the
\* place the decision has reached
VARIABLES observation, retries, turns, attempts, returned, driver_pc

engine_vars == <<players, button_seat, hand_number, street, community_cards,
                 pot, side_pots, current_bet, min_raise, last_raiser, actions,
                 action_to, hand_complete, hand_rank, start_total, ret, call,
                 obs, legal_in, legal_out>>

driver_vars == <<observation, retries, turns, attempts, returned, driver_pc>>

\* one tournament of TournamentRunner.run: the AgentAction the runner
\* received last, the record it passed to hand_logger.record_action last,
\* the actions of the current hand in each seat's AgentMemory, the
\* AgentManager's active_seats, the PlacementScorer, the placements
\* calculated, and the place the run has reached
VARIABLES decision, logged, memories, manager_seats, scorer, placements,
          runner_pc

runner_vars == <<decision, logged, memories, manager_seats, scorer, placements,
                 runner_pc>>

\* a run with seeded deck and fixed agents, and the run repeated: the
\* TournamentConfig, the agent of each seat, the Deck, the actions logged in
\* the run so far, those of the first run, and which run this is
VARIABLES config, agents, deck, action_log, first_log, run_index

seeded_vars == <<config, agents, deck, action_log, first_log, run_index>>

\* MultiRunManager.run_all: num_runs, the runs started, self.results, and
\* the place run_all has reached
VARIABLES num_runs, run_number, results, orch_pc

orch_vars == <<num_runs, run_number, results, orch_pc>>

\* the variables of the components around the hand engine
ext_vars == <<driver_vars, runner_vars, seeded_vars, orch_vars>>

\* what a step of the driver leaves alone
driver_rest == <<engine_vars, runner_vars, seeded_vars, orch_vars>>

\* what a step of the runner leaves alone besides the engine
runner_rest == <<driver_vars, seeded_vars, orch_vars>>

vars == <<engine_vars, ext_vars>>

(* ------------------------------ bounds --------------------------------- *)

\* largest stack of the short-stacked heads-up tables
MaxShort == 3

\* largest amount a caller passes in an Action
MaxAmount == 7

\* largest stack and bet in the states passed to the functions of actions.py
MaxBet == 3

(* ------------------------------ helpers -------------------------------- *)

Min(a, b) == IF a < b THEN a ELSE b

Max(a, b) == IF a > b THEN a ELSE b

RECURSIVE SumOver(_, _)
SumOver(f, S) ==
    IF S = {} THEN 0
    ELSE LET x == CHOOSE y \in S : TRUE IN f[x] + SumOver(f, S \ {x})

\* the elements of a set of integers in ascending order
RECURSIVE SortedSeq(_)
SortedSeq(S) ==
    IF S = {} THEN <<>>
    ELSE LET m == CHOOSE x \in S : \A y \in S : x <= y
         IN <<m>> \o SortedSeq(S \ {m})

None == 0

\* x in seq, for a list
InSeq(x, seq) == \E i \in 1..Len(seq) : seq[i] = x

Seats == DOMAIN players

TotalStacks(ps) == SumOver([s \in DOMAIN ps |-> ps[s].stack], DOMAIN ps)

(* ------------------------------ blinds.py ------------------------------ *)

DEFAULT_BLIND_SCHEDULE ==
    << [level |-> 1, hands |-> 20, small_blind |-> 1, big_blind |-> 2],
       [level |-> 2, hands |-> 20, small_blind |-> 2, big_blind |-> 4],
       [level |-> 3, hands |-> 20, small_blind |-> 4, big_blind |-> 8],
       [level |-> 4, hands |-> 20, small_blind |-> 8, big_blind |-> 16],
       [level |-> 5, hands |-> 20, small_blind |-> 16, big_blind |-> 32],
       [level |-> 6, hands |-> None, small_blind |-> 32, big_blind |-> 64] >>

RECURSIVE level_from(_, _, _)
level_from(i, cumulative, hands_played) ==
    LET level == DEFAULT_BLIND_SCHEDULE[i] IN
    IF level.hands = None THEN level
    ELSE IF hands_played < cumulative + level.hands THEN level
    ELSE level_from(i + 1, cumulative + level.hands, hands_played)

get_level_for_hand(h) == level_from(1, 0, h - 1)

get_blinds(h) ==
    LET level == get_level_for_hand(h)
    IN [sb |-> level.small_blind, bb |-> level.big_blind]

(* ------------------------------ actions.py ----------------------------- *)

FOLD == "fold"
CALL == "call"
RAISE == "raise"
CHECK == "check"
BET == "bet"
ALL_IN == "all_in"
POST_SB == "post_sb"
POST_BB == "post_bb"

Action(t, amt, allin) == [action_type |-> t, amount |-> amt, is_all_in |-> allin]

\* get_legal_actions with the fold appended whatever to_call is
get_legal_actions_fold_first(player, betting) ==
    IF player.has_folded \/ player.is_all_in THEN <<>>
    ELSE
    LET to_call == betting.current_bet - player.bet_this_round
    IN <<Action(FOLD, 0, FALSE)>> \o
       (IF to_call = 0 THEN <<Action(CHECK, 0, FALSE)>>
        ELSE <<Action(CALL, Min(to_call, player.stack), to_call >= player.stack)>>)

\* get_legal_actions: the list of Action records, in the order the code appends
get_legal_actions(player, betting) ==
    IF player.has_folded \/ player.is_all_in THEN <<>>
    ELSE
    LET to_call == betting.current_bet - player.bet_this_round
        foldPart == IF to_call > 0 THEN <<Action(FOLD, 0, FALSE)>> ELSE <<>>
        callPart ==
            IF to_call = 0 THEN <<Action(CHECK, 0, FALSE)>>
            ELSE IF to_call >= player.stack
                 THEN <<Action(CALL, player.stack, TRUE)>>
                 ELSE <<Action(CALL, to_call, FALSE)>>
        chips_after_call == player.stack - to_call
        min_bet == betting.big_blind
        min_raise_to == betting.current_bet + betting.min_raise
        total_needed == min_raise_to - player.bet_this_round
        max_raise_to == player.stack + player.bet_this_round
        raisePart ==
            IF ~(player.stack > to_call) THEN <<>>
            ELSE IF betting.current_bet = 0
            THEN IF chips_after_call >= min_bet
                 THEN <<Action(BET, min_bet, FALSE)>> \o
                      (IF player.stack > min_bet
                       THEN <<Action(ALL_IN, player.stack, TRUE)>> ELSE <<>>)
                 ELSE <<>>
            ELSE IF player.stack >= total_needed
                 THEN <<Action(RAISE, min_raise_to, FALSE)>> \o
                      (IF max_raise_to > min_raise_to
                       THEN <<Action(ALL_IN, max_raise_to, TRUE)>> ELSE <<>>)
                 ELSE <<Action(ALL_IN, max_raise_to, TRUE)>>
    IN foldPart \o callPart \o raisePart

\* validate_action: TRUE iff the code returns (True, "")
validate_action(action, player, betting) ==
    LET to_call == betting.current_bet - player.bet_this_round IN
    IF player.has_folded THEN FALSE
    ELSE IF player.is_all_in THEN FALSE
    ELSE IF action.action_type = FOLD THEN to_call # 0
    ELSE IF action.action_type = CHECK THEN ~(to_call > 0)
    ELSE IF action.action_type = CALL
         THEN to_call # 0 /\ action.amount = Min(to_call, player.stack)
    ELSE IF action.action_type \in {BET, RAISE, ALL_IN}
         THEN IF action.amount > player.stack + player.bet_this_round THEN FALSE
              ELSE IF action.is_all_in
                      /\ action.amount = player.stack + player.bet_this_round
                   THEN TRUE
              ELSE IF betting.current_bet = 0
                   THEN ~(action.amount < betting.big_blind)
                   ELSE ~(action.amount < betting.current_bet + betting.min_raise
                          /\ ~action.is_all_in)
    ELSE FALSE

(* ------------------------------ game.py -------------------------------- *)

PREFLOP == "preflop"
FLOP == "flop"
TURN == "turn"
RIVER == "river"
SHOWDOWN == "showdown"

\* Player(seat, name, stack) with the dataclass defaults
Player(stack) ==
    [stack |-> stack, bet_this_round |-> 0, bet_this_hand |-> 0,
     has_acted |-> FALSE, is_all_in |-> FALSE, has_folded |-> FALSE]

\* Player.to_state
to_state(p) ==
    [stack |-> p.stack, bet_this_round |-> p.bet_this_round,
     has_acted |-> p.has_acted, is_all_in |-> p.is_all_in,
     has_folded |-> p.has_folded]

\* Player.reset_for_hand
reset_for_hand(p) ==
    [p EXCEPT !.bet_this_round = 0, !.bet_this_hand = 0, !.has_acted = FALSE,
              !.is_all_in = FALSE, !.has_folded = FALSE]

\* Player.reset_for_street
reset_for_street(p) == [p EXCEPT !.bet_this_round = 0, !.has_acted = FALSE]

\* The mutable fields of GameState as one record, so that the helper methods
\* can be composed in the order the code calls them.
Game ==
    [players |-> players, hand_number |-> hand_number, street |-> street,
     community_cards |-> community_cards, pot |-> pot, side_pots |-> side_pots,
     current_bet |-> current_bet, min_raise |-> min_raise,
     last_raiser |-> last_raiser, actions |-> actions, action_to |-> action_to,
     hand_complete |-> hand_complete]

\* GameState.active_players (as a set of seats)
active_players(g) == {s \in DOMAIN g.players : ~g.players[s].has_folded}

\* GameState.players_to_act (as a set of seats)
players_to_act(g) == {s \in active_players(g) : ~g.players[s].is_all_in}

\* GameState.seats_in_order: all seats clockwise from the seat after the button
seats_in_order ==
    LET n == Cardinality(Seats)
    IN [i \in 1..n |-> ((button_seat - 1 + i) % n) + 1]

\* [s for s in self.seats_in_order if s in S]
InOrder(S) == SelectSeq(seats_in_order, LAMBDA s : s \in S)

\* seats.index(x) of Python, 0-based
IndexOf(seq, x) == (CHOOSE i \in 1..Len(seq) : seq[i] = x) - 1

\* GameState.get_betting_state
get_betting_state(g) ==
    [pot |-> g.pot, current_bet |-> g.current_bet, min_raise |-> g.min_raise,
     big_blind |-> get_blinds(g.hand_number).bb,
     last_raiser_seat |-> g.last_raiser,
     num_active_players |-> Cardinality(active_players(g))]

HandAction(st, seat, action, pot_after) ==
    [street |-> st, seat |-> seat, action |-> action, pot_after |-> pot_after]

\* self.actions.append(...) in apply_action.  The engine reads back only the
\* blind entries of the log (in _set_preflop_action), so the model keeps those
\* and the most recent entry; older apply_action entries are dropped.
log_append(log, entry) ==
    SelectSeq(log, LAMBDA a : a.action.action_type \in {POST_SB, POST_BB})
        \o <<entry>>

\* GameState._calculate_side_pots
RECURSIVE side_pots_from(_, _, _, _)
side_pots_from(g, levels, i, prev_level) ==
    IF i > Len(levels) THEN <<>>
    ELSE
    LET level == levels[i]
        act == active_players(g)
        contribution == [s \in act |->
                            Min(g.players[s].bet_this_hand, level) - prev_level]
        paying == {s \in act : contribution[s] > 0}
        pot_amount == SumOver(contribution, paying)
        eligible == {s \in paying : g.players[s].bet_this_hand >= level}
        this == IF pot_amount > 0
                THEN << [amount |-> pot_amount, eligible |-> eligible] >>
                ELSE <<>>
    IN this \o side_pots_from(g, levels, i + 1, level)

calculate_side_pots(g) ==
    IF ~(\E s \in active_players(g) : g.players[s].is_all_in) THEN g
    ELSE
    LET bet_levels == SortedSeq({g.players[s].bet_this_hand :
                                   s \in {t \in active_players(g) :
                                            g.players[t].bet_this_hand > 0}})
    IN [g EXCEPT !.side_pots = side_pots_from(g, bet_levels, 1, 0)]

\* _end_hand_no_showdown without the line "winner.stack += self.pot"
end_hand_without_award(g) ==
    [g EXCEPT !.hand_complete = TRUE, !.street = SHOWDOWN]

\* GameState._end_hand_no_showdown
end_hand_no_showdown(g) ==
    LET winner == CHOOSE s \in active_players(g) :
                      \A t \in active_players(g) : s <= t
    IN [g EXCEPT !.players[winner].stack = @ + g.pot,
                 !.hand_complete = TRUE,
                 !.street = SHOWDOWN]

\* determine_winners: the seats of `among` tied at the best (smallest) rank,
\* in the iteration order of the players dict (ascending seat)
determine_winners(ranks, among) ==
    LET best_rank == CHOOSE r \in {ranks[s] : s \in among} :
                         \A t \in among : r <= ranks[t]
    IN SortedSeq({s \in among : ranks[s] = best_rank})

\* stack += share + (1 if i < remainder else 0) for i, seat in enumerate(winners)
award(ps, amount, winners) ==
    LET share == amount \div Len(winners)
        remainder == amount % Len(winners)
    IN [s \in DOMAIN ps |->
          IF \E i \in 1..Len(winners) : winners[i] = s
          THEN LET i == CHOOSE j \in 1..Len(winners) : winners[j] = s
               IN [ps[s] EXCEPT !.stack = @ + share +
                                   (IF i - 1 < remainder THEN 1 ELSE 0)]
          ELSE ps[s]]

RECURSIVE award_side_pots(_, _, _, _, _)
award_side_pots(ps, pots, i, winners, ranks) ==
    IF i > Len(pots) THEN ps
    ELSE
    LET eligible == pots[i].eligible
        among == SelectSeq(winners, LAMBDA w : w \in eligible)
        eligible_winners == IF Len(among) = 0
                            THEN determine_winners(ranks, eligible)
                            ELSE among
    IN award_side_pots(award(ps, pots[i].amount, eligible_winners),
                       pots, i + 1, winners, ranks)

\* _showdown that takes the branch without side pots whatever side_pots holds
showdown_one_pot(g, ranks) ==
    LET g1 == [g EXCEPT !.street = SHOWDOWN, !.hand_complete = TRUE]
        act == active_players(g)
    IN IF Cardinality(act) = 1
       THEN LET winner == CHOOSE s \in act : TRUE
            IN [g1 EXCEPT !.players[winner].stack = @ + g.pot]
       ELSE [g1 EXCEPT !.players =
                award(g.players, g.pot, determine_winners(ranks, act))]

\* GameState._showdown; ranks[s] is evaluate_hand for seat s
showdown(g, ranks) ==
    LET g1 == [g EXCEPT !.street = SHOWDOWN, !.hand_complete = TRUE]
        act == active_players(g)
    IN IF Cardinality(act) = 1
       THEN LET winner == CHOOSE s \in act : TRUE
            IN [g1 EXCEPT !.players[winner].stack = @ + g.pot]
       ELSE LET winners == determine_winners(ranks, act)
            IN IF g.side_pots = <<>>
               THEN [g1 EXCEPT !.players = award(g.players, g.pot, winners)]
               ELSE [g1 EXCEPT !.players =
                        award_side_pots(g.players, g.side_pots, 1, winners, ranks)]

\* _run_out_board without the loop that deals the missing cards
run_out_board_undealt(g, ranks) == showdown(g, ranks)

\* GameState._run_out_board
run_out_board(g, ranks) ==
    showdown([g EXCEPT !.community_cards = 5,
                       !.street = IF g.community_cards < 5 THEN RIVER ELSE @],
             ranks)

\* GameState._end_betting_round, with _set_postflop_action inlined in set_postflop_action
RECURSIVE end_betting_round(_, _)
\* _set_postflop_action choosing among the seats that have not folded
set_postflop_action_any(g, ranks) ==
    IF players_to_act(g) = {} THEN end_betting_round(g, ranks)
    ELSE [g EXCEPT !.action_to = InOrder(active_players(g))[1]]

\* _set_postflop_action that starts with the button instead of the seat
\* after it
set_postflop_action_button_first(g, ranks) ==
    IF players_to_act(g) = {} THEN end_betting_round(g, ranks)
    ELSE [g EXCEPT !.action_to =
            IF button_seat \in players_to_act(g) THEN button_seat
            ELSE InOrder(players_to_act(g))[1]]

set_postflop_action(g, ranks) ==
    IF players_to_act(g) = {} THEN end_betting_round(g, ranks)
    ELSE [g EXCEPT !.action_to = InOrder(players_to_act(g))[1]]

end_betting_round(g, ranks) ==
    LET g1 == calculate_side_pots(g)
        g2 == [g1 EXCEPT !.players = [s \in DOMAIN g1.players |->
                                         reset_for_street(g1.players[s])],
                         !.current_bet = 0,
                         !.last_raiser = None]
        g3 == IF g2.street = PREFLOP
              THEN set_postflop_action(
                     [g2 EXCEPT !.street = FLOP,
                                !.community_cards = @ + 3], ranks)
              ELSE IF g2.street = FLOP
              THEN set_postflop_action(
                     [g2 EXCEPT !.street = TURN,
                                !.community_cards = @ + 1], ranks)
              ELSE IF g2.street = TURN
              THEN set_postflop_action(
                     [g2 EXCEPT !.street = RIVER,
                                !.community_cards = @ + 1], ranks)
              ELSE IF g2.street = RIVER
              THEN showdown(g2, ranks)
              ELSE g2
    IN IF Cardinality(players_to_act(g3)) <= 1
          /\ Cardinality(active_players(g3)) > 1
          /\ g3.street # SHOWDOWN
       THEN run_out_board(g3, ranks)
       ELSE g3

\* GameState._advance_action
advance_action(g, ranks) ==
    IF Cardinality(active_players(g)) = 1 THEN end_hand_no_showdown(g)
    ELSE IF players_to_act(g) = {} THEN end_betting_round(g, ranks)
    ELSE
    LET all_acted == \A s \in players_to_act(g) : g.players[s].has_acted
        bets_matched == \A s \in active_players(g) :
                           g.players[s].bet_this_round = g.current_bet
                           \/ g.players[s].is_all_in
        active_seats == {s \in players_to_act(g) :
                           ~g.players[s].has_acted
                           \/ g.players[s].bet_this_round < g.current_bet}
    IN IF all_acted /\ bets_matched THEN end_betting_round(g, ranks)
       ELSE IF active_seats = {} THEN end_betting_round(g, ranks)
       ELSE LET n == Len(seats_in_order)
                current_idx == IndexOf(seats_in_order, g.action_to)
                i == CHOOSE k \in 1..n :
                        /\ seats_in_order[((current_idx + k) % n) + 1] \in active_seats
                        /\ \A j \in 1..(k - 1) :
                              seats_in_order[((current_idx + j) % n) + 1] \notin active_seats
            IN [g EXCEPT !.action_to = seats_in_order[((current_idx + i) % n) + 1]]

\* _apply_bet without the line "self.pot += amount"
apply_bet_without_pot(g, seat, amount, is_all_in) ==
    [g EXCEPT !.players[seat].stack = @ - amount,
              !.players[seat].bet_this_round = @ + amount,
              !.players[seat].bet_this_hand = @ + amount,
              !.players[seat].is_all_in = IF is_all_in THEN TRUE ELSE @]

\* GameState._apply_bet
apply_bet(g, seat, amount, is_all_in) ==
    [g EXCEPT !.players[seat].stack = @ - amount,
              !.players[seat].bet_this_round = @ + amount,
              !.players[seat].bet_this_hand = @ + amount,
              !.players[seat].is_all_in = IF is_all_in THEN TRUE ELSE @,
              !.pot = @ + amount]

\* apply_action without the loop that clears has_acted
reset_nobody(g, seat) == g

\* the loop "for p in self.players_to_act: if p.seat != seat: p.has_acted = False"
reset_has_acted(g, seat) ==
    [g EXCEPT !.players = [s \in DOMAIN g.players |->
        IF s \in players_to_act(g) /\ s # seat
        THEN [g.players[s] EXCEPT !.has_acted = FALSE]
        ELSE g.players[s]]]

\* the branch for BET, RAISE and ALL_IN without the line
\* "self.current_bet = action.amount"
apply_raise_keeps_bet(g, seat, action, betting) ==
    LET raise_amount == action.amount - g.players[seat].bet_this_round
        g1 == apply_bet(g, seat, raise_amount, action.is_all_in)
        g2 == [g1 EXCEPT !.min_raise = Max(action.amount - betting.current_bet,
                                           betting.big_blind),
                         !.last_raiser = seat]
    IN reset_has_acted(g2, seat)

\* the branch of apply_action for BET, RAISE and ALL_IN
apply_raise(g, seat, action, betting) ==
    LET raise_amount == action.amount - g.players[seat].bet_this_round
        g1 == apply_bet(g, seat, raise_amount, action.is_all_in)
        g2 == [g1 EXCEPT !.current_bet = action.amount,
                         !.min_raise = Max(action.amount - betting.current_bet,
                                           betting.big_blind),
                         !.last_raiser = seat]
    IN reset_has_acted(g2, seat)

\* apply_action without the turn check
any_turn(g, seat) == TRUE

\* the turn check at the head of apply_action
is_turn(g, seat) == g.action_to = seat

\* the two early returns at the head of apply_action: "ok" when it goes on
apply_check(g, seat, action) ==
    IF ~is_turn(g, seat) THEN "not_turn"
    ELSE IF ~validate_action(action, to_state(g.players[seat]),
                             get_betting_state(g))
    THEN "invalid"
    ELSE "ok"

\* the body of apply_action after the two checks, up to the append to the log
after_action(g, seat, action) ==
    LET betting == get_betting_state(g)
        g1 == IF action.action_type = FOLD
              THEN [g EXCEPT !.players[seat].has_folded = TRUE]
              ELSE IF action.action_type = CHECK THEN g
              ELSE IF action.action_type = CALL
              THEN apply_bet(g, seat, action.amount, action.is_all_in)
              ELSE apply_raise(g, seat, action, betting)
        g2 == [g1 EXCEPT !.players[seat].has_acted = TRUE]
    IN [g2 EXCEPT !.actions =
           log_append(@, HandAction(g2.street, seat, action, g2.pot))]

\* the body of apply_action after the two checks: the action, then
\* self._advance_action()
apply_effect(g, seat, action, ranks) ==
    advance_action(after_action(g, seat, action), ranks)

\* apply_action that marks the seat as having acted before it validates
\* the action
apply_action_acted_first(g, seat, action, ranks) ==
    LET r == apply_check(g, seat, action)
    IN IF r = "not_turn" THEN [game |-> g, ret |-> r]
       ELSE IF r = "invalid"
       THEN [game |-> [g EXCEPT !.players[seat].has_acted = TRUE], ret |-> r]
       ELSE [game |-> apply_effect(g, seat, action, ranks), ret |-> "ok"]

\* GameState.apply_action; ret is "ok" for (True, "") and names the early
\* return otherwise
apply_action(g, seat, action, ranks) ==
    LET r == apply_check(g, seat, action)
    IN IF r # "ok" THEN [game |-> g, ret |-> r]
       ELSE [game |-> apply_effect(g, seat, action, ranks), ret |-> "ok"]

\* _post_blind that counts the forced bet as the seat's action
post_blind_as_action(g, seat, amount, action_type) ==
    LET player == g.players[seat]
        actual == Min(amount, player.stack)
        all_in == IF player.stack - actual = 0 THEN TRUE ELSE player.is_all_in
        g1 == [g EXCEPT !.players[seat].stack = @ - actual,
                        !.players[seat].bet_this_round = actual,
                        !.players[seat].bet_this_hand = actual,
                        !.players[seat].is_all_in = all_in,
                        !.players[seat].has_acted = TRUE,
                        !.pot = @ + actual,
                        !.current_bet = IF actual >= amount
                                        THEN Max(@, actual) ELSE @]
    IN [g1 EXCEPT !.actions =
           Append(@, HandAction(g1.street, seat,
                                Action(action_type, actual, all_in), g1.pot))]

\* GameState._post_blind
post_blind(g, seat, amount, action_type) ==
    LET player == g.players[seat]
        actual == Min(amount, player.stack)
        all_in == IF player.stack - actual = 0 THEN TRUE ELSE player.is_all_in
        g1 == [g EXCEPT !.players[seat].stack = @ - actual,
                        !.players[seat].bet_this_round = actual,
                        !.players[seat].bet_this_hand = actual,
                        !.players[seat].is_all_in = all_in,
                        !.pot = @ + actual,
                        !.current_bet = IF actual >= amount
                                        THEN Max(@, actual) ELSE @]
    IN [g1 EXCEPT !.actions =
           Append(@, HandAction(g1.street, seat,
                                Action(action_type, actual, all_in), g1.pot))]

\* _post_blinds without the heads-up rule: the seat after the button posts
\* the small blind at every table
post_blinds_ring(g) ==
    LET blinds == get_blinds(g.hand_number)
        g0 == [g EXCEPT !.min_raise = blinds.bb]
        active_seats == active_players(g)
        in_order == InOrder(active_seats)
        n == Len(in_order)
    IN IF n < 2 THEN g0
       ELSE
       LET btn_idx == IF button_seat \in active_seats
                      THEN IndexOf(in_order, button_seat) ELSE -1
           sb_seat == in_order[((btn_idx + 1) % n) + 1]
           bb_seat == in_order[((btn_idx + 2) % n) + 1]
       IN post_blind(post_blind(g0, sb_seat, blinds.sb, POST_SB),
                     bb_seat, blinds.bb, POST_BB)

\* GameState._post_blinds
post_blinds(g) ==
    LET blinds == get_blinds(g.hand_number)
        g0 == [g EXCEPT !.min_raise = blinds.bb]
        active_seats == active_players(g)
        in_order == InOrder(active_seats)
        n == Len(in_order)
    IN IF n < 2 THEN g0
       ELSE
       LET btn_idx == IF button_seat \in active_seats
                      THEN IndexOf(in_order, button_seat) ELSE -1
           sb_seat == IF n = 2
                      THEN (IF button_seat \in active_seats
                            THEN button_seat ELSE in_order[1])
                      ELSE in_order[((btn_idx + 1) % n) + 1]
           bb_seat == IF n = 2
                      THEN SelectSeq(in_order, LAMBDA s : s # sb_seat)[1]
                      ELSE in_order[((btn_idx + 2) % n) + 1]
       IN post_blind(post_blind(g0, sb_seat, blinds.sb, POST_SB),
                     bb_seat, blinds.bb, POST_BB)

\* GameState._set_preflop_action
set_preflop_action(g, ranks) ==
    IF players_to_act(g) = {} THEN end_betting_round(g, ranks)
    ELSE
    LET in_order == InOrder(players_to_act(g))
        bb_actions == SelectSeq(g.actions,
                                LAMBDA a : a.action.action_type = POST_BB)
    IN IF Len(bb_actions) > 0
          /\ \E i \in 1..Len(in_order) : in_order[i] = bb_actions[1].seat
       THEN [g EXCEPT !.action_to =
               in_order[((IndexOf(in_order, bb_actions[1].seat) + 1)
                          % Len(in_order)) + 1]]
       ELSE [g EXCEPT !.action_to = in_order[1]]

\* GameState.start_hand
start_hand(g, n, ranks) ==
    LET g1 == [g EXCEPT !.hand_number = n, !.street = PREFLOP,
                        !.community_cards = 0, !.pot = 0, !.side_pots = <<>>,
                        !.current_bet = 0, !.min_raise = 0,
                        !.last_raiser = None, !.actions = <<>>,
                        !.hand_complete = FALSE,
                        !.players = [s \in DOMAIN g.players |->
                            IF g.players[s].stack > 0
                            THEN reset_for_hand(g.players[s])
                            ELSE [g.players[s] EXCEPT !.has_folded = TRUE]]]
    IN set_preflop_action(post_blinds(g1), ranks)

\* GameState.get_hand_result: the winners, the pot and the pots_awarded dict
\* of the HandResult, the dict as a function on the seats it has keys for
get_hand_result(g, ranks) ==
    IF ~g.hand_complete THEN None
    ELSE IF Cardinality(active_players(g)) = 1
    THEN LET winner == CHOOSE s \in active_players(g) : TRUE
         IN [winners |-> <<winner>>, pot |-> g.pot,
             pots_awarded |-> [s \in {winner} |-> g.pot]]
    ELSE LET winners == determine_winners(ranks, active_players(g))
             share == g.pot \div Len(winners)
         IN [winners |-> winners, pot |-> g.pot,
             pots_awarded |-> [s \in {winners[i] : i \in 1..Len(winners)}
                                 |-> share]]

(* ------------------------------ runner.py ------------------------------ *)

\* _build_observation offering the fold only when there is a bet to call
build_observation_fold_to_bet(g, seat) ==
    LET player == g.players[seat]
        to_call == g.current_bet - player.bet_this_round
        min_raise_to == g.current_bet + g.min_raise
        legal_actions ==
            (IF to_call > 0 THEN <<"fold">> ELSE <<>>) \o
            (IF to_call = 0 THEN <<"check">> ELSE <<"call">>) \o
            (IF player.stack > to_call
                /\ min_raise_to <= player.stack + player.bet_this_round
             THEN <<"raise">> ELSE <<>>)
    IN [my_seat |-> seat, my_stack |-> player.stack, current_bet |-> to_call,
        min_raise |-> min_raise_to,
        max_raise |-> player.stack + player.bet_this_round,
        legal_actions |-> legal_actions]

\* TournamentRunner._build_observation: the fields computed from the game
\* state for the seat (Observation.current_bet carries to_call)
build_observation(g, seat) ==
    LET player == g.players[seat]
        to_call == g.current_bet - player.bet_this_round
        min_raise_to == g.current_bet + g.min_raise
        legal_actions ==
            <<"fold">> \o
            (IF to_call = 0 THEN <<"check">> ELSE <<"call">>) \o
            (IF player.stack > to_call
                /\ min_raise_to <= player.stack + player.bet_this_round
             THEN <<"raise">> ELSE <<>>)
    IN [my_seat |-> seat, my_stack |-> player.stack, current_bet |-> to_call,
        min_raise |-> min_raise_to,
        max_raise |-> player.stack + player.bet_this_round,
        legal_actions |-> legal_actions]

(* --------------------- agents/base.py, agents/llm_agent.py ------------- *)

\* raise_to = None in an AgentAction
NoRaiseTo == -1

\* LLMAgent.__init__: max_retries (default)
max_retries == 3

\* max_turns passed to call_with_tools by get_action
max_turns == 5

\* AgentAction(action, raise_to, forced, retries)
AgentAction(action, raise_to, forced, n) ==
    [action |-> action, raise_to |-> raise_to, forced |-> forced,
     retries |-> n]

\* no AgentAction has been returned
NoAction == <<>>

\* nothing has been passed to hand_logger.record_action
NoRecord == <<>>

\* no TournamentConfig
NoConfig == <<>>

\* no Deck
NoDeck == <<>>

\* the empty text of a reply (content and reasoning_content both empty)
EmptyText == [empty |-> TRUE, json |-> FALSE, action |-> "",
              raise_to |-> NoRaiseTo]

\* the text of a reply that carries no JSON object
NoJson == [empty |-> FALSE, json |-> FALSE, action |-> "",
           raise_to |-> NoRaiseTo]

\* the text of a reply that carries the JSON object
\* {"action": a, "raise_to": r}
Json(a, r) == [empty |-> FALSE, json |-> TRUE, action |-> a, raise_to |-> r]

\* _parse_action: None (NoAction) unless the reply carries a JSON object
\* whose action is one of the four kinds and, for a raise, a raise_to
parse_action(text) ==
    IF ~text.json THEN NoAction
    ELSE IF text.action \notin {"fold", "check", "call", "raise"} THEN NoAction
    ELSE IF text.action = "raise" /\ text.raise_to = NoRaiseTo THEN NoAction
    ELSE AgentAction(text.action, text.raise_to, FALSE, 0)

\* _validate_action: is_valid
validate_agent_action(action, o) ==
    IF ~InSeq(action.action, o.legal_actions) THEN FALSE
    ELSE IF action.action = "raise"
    THEN IF action.raise_to = NoRaiseTo THEN FALSE
         ELSE IF action.raise_to < o.min_raise /\ action.raise_to < o.my_stack
         THEN FALSE
         ELSE IF action.raise_to > o.max_raise THEN FALSE
         ELSE TRUE
    ELSE TRUE

\* the forced action being check when the observation lists check
forced_check_if_legal(o, n) ==
    AgentAction(IF InSeq("check", o.legal_actions) THEN "check" ELSE "fold",
                NoRaiseTo, TRUE, n)

\* get_action, after the loop: the AgentAction returned once the retries
\* have exceeded max_retries
forced_action(o, n) == AgentAction("fold", NoRaiseTo, TRUE, n)

\* a failed attempt that leaves the count of retries as it was
retry_uncounted(n) == n

\* retries += 1 in get_action
retry(n) == n + 1

(* ------------------------- tournament/scorer.py ------------------------ *)

\* PlacementScorer.__init__
PlacementScorer(num_players) ==
    [num_players |-> num_players, active_players |-> 1..num_players,
     eliminations |-> <<>>]

\* Elimination(seat, hand_number)
Elimination(seat, h) == [seat |-> seat, hand_number |-> h]

\* record_elimination
record_elimination(sc, seat, h) ==
    IF seat \notin sc.active_players THEN sc
    ELSE [sc EXCEPT !.active_players = @ \ {seat},
                    !.eliminations = Append(@, Elimination(seat, h))]

\* record_multi_elimination: the seats of the list, in its order
RECURSIVE record_multi_elimination(_, _, _)
record_multi_elimination(sc, seats, h) ==
    IF seats = <<>> THEN sc
    ELSE record_multi_elimination(record_elimination(sc, Head(seats), h),
                                  Tail(seats), h)

\* is_tournament_over
is_tournament_over(sc) == Cardinality(sc.active_players) <= 1

\* the loop of calculate_placements over sorted(elims_by_hand, reverse=True)
RECURSIVE place_groups(_, _, _, _)
place_groups(sc, hands, current_placement, placed) ==
    IF hands = {} THEN placed
    ELSE
    LET hand_num == CHOOSE h \in hands : \A k \in hands : k <= h
        hand_elims == {sc.eliminations[i].seat : i \in
                          {j \in 1..Len(sc.eliminations) :
                              sc.eliminations[j].hand_number = hand_num}}
    IN place_groups(sc, hands \ {hand_num},
                    current_placement + Cardinality(hand_elims),
                    [seat \in DOMAIN placed \cup hand_elims |->
                        IF seat \in hand_elims THEN current_placement
                        ELSE placed[seat]])

\* calculate_placements that numbers the groups from the first one eliminated
calculate_placements_no_survivors(sc) ==
    place_groups(sc,
                 {sc.eliminations[i].hand_number :
                     i \in 1..Len(sc.eliminations)},
                 1,
                 [seat \in sc.active_players |-> 1])

\* calculate_placements: a function seat -> placement
calculate_placements(sc) ==
    place_groups(sc,
                 {sc.eliminations[i].hand_number :
                     i \in 1..Len(sc.eliminations)},
                 Cardinality(sc.active_players) + 1,
                 [seat \in sc.active_players |-> 1])

(* ------------------- tournament/runner.py, agents/manager.py ----------- *)

\* TournamentRunner._convert_action (`raise_to or obs.min_raise` takes the
\* minimum for None and for 0)
convert_action(g, agent_action, player, o) ==
    LET to_call == g.current_bet - player.bet_this_round IN
    IF agent_action.action = "fold" THEN Action(FOLD, 0, FALSE)
    ELSE IF agent_action.action = "check" THEN Action(CHECK, 0, FALSE)
    ELSE IF agent_action.action = "call"
    THEN IF to_call = 0 THEN Action(CHECK, 0, FALSE)
         ELSE LET call_amount == Min(to_call, player.stack)
              IN Action(CALL, call_amount, call_amount >= player.stack)
    ELSE IF agent_action.action = "raise"
    THEN LET asked == IF agent_action.raise_to \in {NoRaiseTo, 0}
                      THEN o.min_raise ELSE agent_action.raise_to
             raise_to == Max(o.min_raise, Min(asked, o.max_raise))
             is_all_in == raise_to >= player.stack + player.bet_this_round
         IN IF g.current_bet = 0 THEN Action(BET, raise_to, is_all_in)
            ELSE Action(RAISE, raise_to, is_all_in)
    ELSE Action(FOLD, 0, FALSE)

\* the fallback of _play_action being a fold whatever there is to call
fallback_fold(g, player) == Action(FOLD, 0, FALSE)

\* the action _play_action substitutes when the engine rejects the
\* converted one
fallback_action(g, player) ==
    LET to_call == g.current_bet - player.bet_this_round
    IN IF to_call = 0 THEN Action(CHECK, 0, FALSE) ELSE Action(FOLD, 0, FALSE)

\* the record _play_action passes to hand_logger.record_action
LogRecord(st, seat, game_action, forced) ==
    [street |-> st, seat |-> seat, action |-> game_action.action_type,
     amount |-> game_action.amount, forced |-> forced]

\* the record AgentManager.record_action passes to memory.record_action
ActionRecord(st, seat, game_action) ==
    [street |-> st, seat |-> seat, action |-> game_action.action_type,
     amount |-> game_action.amount]

\* the record goes to the memory of the seat that acted only
record_action_to_actor(mem, seats, rec) ==
    [s \in DOMAIN mem |-> IF s = rec.seat THEN Append(mem[s], rec)
                           ELSE mem[s]]

\* AgentManager.record_action: the record goes to the memory of every
\* active seat
record_action(mem, seats, rec) ==
    [s \in DOMAIN mem |-> IF InSeq(s, seats) THEN Append(mem[s], rec)
                           ELSE mem[s]]

\* TournamentRunner._play_action from the AgentAction to the last call of
\* apply_action: the Action that call is made with (the converted action,
\* or the fallback when the engine rejects that one; a rejected call
\* changes nothing), and the record logged if the call succeeds
play_action(g, agent_action) ==
    LET action_seat == g.action_to
        player == g.players[action_seat]
        o == build_observation(g, action_seat)
        game_action == convert_action(g, agent_action, player, o)
    IN IF apply_check(g, action_seat, game_action) = "ok"
       THEN [applied |-> game_action,
             record |-> LogRecord(g.street, action_seat, game_action,
                                  agent_action.forced)]
       ELSE [applied |-> fallback_action(g, player),
             record |-> LogRecord(g.street, action_seat,
                                  fallback_action(g, player), TRUE)]

\* eliminate_seat that leaves the seat among the active ones
eliminate_nobody(seats, seat) == seats

\* AgentManager.eliminate_seat
eliminate_seat(seats, seat) == SelectSeq(seats, LAMBDA s : s # seat)

\* the seats _check_eliminations collects, in the order of game.players
eliminated_seats(g, seats) ==
    SortedSeq({s \in DOMAIN g.players :
                  g.players[s].stack = 0 /\ InSeq(s, seats)})

\* _check_eliminations: the scorer after it
check_eliminations_scorer(g, seats, sc) ==
    LET eliminated == eliminated_seats(g, seats)
    IN IF Len(eliminated) > 1
       THEN record_multi_elimination(sc, eliminated, g.hand_number)
       ELSE IF Len(eliminated) = 1
       THEN record_elimination(sc, eliminated[1], g.hand_number)
       ELSE sc

\* the loop of _check_eliminations over the eliminated seats
RECURSIVE eliminate_all(_, _)
eliminate_all(seats, eliminated) ==
    IF eliminated = <<>> THEN seats
    ELSE eliminate_all(eliminate_seat(seats, Head(eliminated)),
                       Tail(eliminated))

\* _check_eliminations: the AgentManager's active_seats after it
check_eliminations_seats(g, seats) ==
    eliminate_all(seats, eliminated_seats(g, seats))

\* rotate_button that moves the button to the next seat, with or without
\* chips
rotate_button_any_seat(g, button) ==
    (button % Cardinality(DOMAIN g.players)) + 1

\* GameState.rotate_button: the new button_seat
rotate_button(g, button) ==
    LET active == SortedSeq({s \in DOMAIN g.players : g.players[s].stack > 0})
        later == SelectSeq(active, LAMBDA s : s > button)
    IN IF active = <<>> THEN button
       ELSE IF InSeq(button, active)
       THEN active[((IndexOf(active, button) + 1) % Len(active)) + 1]
       ELSE IF later # <<>> THEN later[1]
       ELSE active[1]

(* ------------------------- the hand as a state machine ----------------- *)

\* the values evaluate_hand may return for the seats, one function per deal
NoRanks == [s \in Seats |-> 0]

\* _showdown evaluates the hands of the seats that have not folded.  Only the
\* order of the values matters to determine_winners, so a deal is a ranking
\* of those seats with ties, numbered from 1 without gaps; the other seats
\* keep 0.
Deals(among) ==
    LET n == Cardinality(Seats) IN
    {r \in [Seats -> 0..n] :
        /\ \A s \in Seats : r[s] = 0 <=> s \notin among
        /\ \A s \in among : r[s] = 1 \/ \E t \in among : r[t] = r[s] - 1}

\* a showdown between two or more hands was evaluated on the way to g
Evaluated(g) == g.hand_complete /\ Cardinality(active_players(g)) > 1

Assign(g, r, ranks) ==
    /\ players' = g.players
    /\ hand_number' = g.hand_number
    /\ street' = g.street
    /\ community_cards' = g.community_cards
    /\ pot' = g.pot
    /\ side_pots' = g.side_pots
    /\ current_bet' = g.current_bet
    /\ min_raise' = g.min_raise
    /\ last_raiser' = g.last_raiser
    /\ actions' = g.actions
    /\ action_to' = g.action_to
    /\ hand_complete' = g.hand_complete
    /\ hand_rank' = ranks
    /\ ret' = r

\* call records whether the last call of apply_action was legitimate
NoCall == TRUE

\* no observation has been built since the last call of the engine
NoObs == <<>>

\* no call of the functions of actions.py has been made
NoInput == <<>>

\* the Action values a caller of apply_action passes
ActionInputs ==
    {Action(FOLD, 0, FALSE), Action(CHECK, 0, FALSE)} \cup
    {Action(t, amt, ai) : t \in {CALL, BET, RAISE, ALL_IN},
                          amt \in 0..MaxAmount, ai \in BOOLEAN}

\* the tables GameState is constructed with, as <<stacks, button_seat>>
\* (GameState.__init__ takes any stacks; a seat with no chips sits out):
\* every heads-up table of short stacks, a deeper heads-up table, and
\* three-handed tables with a short big blind, a short small blind, and an
\* eliminated seat
InitialTables ==
    {<<st, b>> : st \in [1..2 -> 1..MaxShort], b \in 1..2} \cup
    { <<(<<6, 5>>), 1>>, <<(<<3, 2, 2>>), 1>>, <<(<<5, 1, 4>>), 1>>,
      <<(<<3, 0, 3>>), 1>>, <<(<<3, 0, 3>>), 3>> }

\* deeper three-handed tables, and the four-handed table of the 3-bet
\* scenario scaled to the blinds 1/2
DeepTables ==
    { <<(<<3, 2, 3>>), 1>>, <<(<<6, 1, 5>>), 1>>, <<(<<6, 3, 5>>), 1>>,
      <<(<<7, 2, 3, 7>>), 1>> }

\* GameState.__init__ for one of the tables
InitGame(tables) ==
    /\ \E t \in tables :
          /\ players = [s \in DOMAIN t[1] |-> Player(t[1][s])]
          /\ button_seat = t[2]
    /\ hand_number = 0
    /\ street = PREFLOP
    /\ community_cards = 0
    /\ pot = 0
    /\ side_pots = <<>>
    /\ current_bet = 0
    /\ min_raise = 0
    /\ last_raiser = None
    /\ actions = <<>>
    /\ action_to = None
    /\ hand_complete = FALSE
    /\ hand_rank = [s \in DOMAIN players |-> 0]
    /\ start_total = 0
    /\ ret = ""
    /\ call = NoCall
    /\ obs = NoObs
    /\ legal_in = NoInput
    /\ legal_out = <<>>

\* no decision of an agent is in progress
DriverIdle ==
    /\ observation = NoObs
    /\ retries = 0
    /\ turns = 0
    /\ attempts = 0
    /\ returned = NoAction
    /\ driver_pc = "idle"

\* no tournament is being run
RunnerIdle ==
    /\ decision = NoAction
    /\ logged = NoRecord
    /\ memories = <<>>
    /\ manager_seats = <<>>
    /\ scorer = PlacementScorer(0)
    /\ placements = <<>>
    /\ runner_pc = "idle"

\* no seeded run is being made
SeededIdle ==
    /\ config = NoConfig
    /\ agents = <<>>
    /\ deck = NoDeck
    /\ action_log = <<>>
    /\ first_log = <<>>
    /\ run_index = 0

\* run_all has not been called
OrchIdle ==
    /\ num_runs = 0
    /\ run_number = 0
    /\ results = <<>>
    /\ orch_pc = "idle"

\* the components around the tournament runner are not running
RestIdle == DriverIdle /\ SeededIdle /\ OrchIdle

\* a table on its own: the components around the engine are not running
InitWith(tables) == InitGame(tables) /\ RestIdle /\ RunnerIdle

Init == InitWith(InitialTables)

\* game.start_hand(1), as the runner's _play_hand and the tests call it
StartHand ==
    /\ hand_number = 0
    /\ \E dry \in {start_hand(Game, 1, NoRanks)} :
          IF Evaluated(dry)
          THEN \E ranks \in Deals(active_players(dry)) :
                 \E g \in {start_hand(Game, 1, ranks)} : Assign(g, "", ranks)
          ELSE Assign(dry, "", NoRanks)
    /\ start_total' = TotalStacks(players)
    /\ call' = NoCall
    /\ obs' = NoObs
    /\ UNCHANGED <<button_seat, legal_in, legal_out, ext_vars>>

\* the condition under which a call of apply_action may succeed: the seat is
\* the one the action pointer names and validate_action accepts the action
Legit(seat, action) ==
    /\ seat = action_to
    /\ validate_action(action, to_state(players[seat]), get_betting_state(Game))

\* the calls of apply_action from `seat` that go through
Accepted(seat) == {a \in ActionInputs : apply_check(Game, seat, a) = "ok"}

\* the calls of apply_action from `seat` that are rejected: the early return
\* taken, and whether the call was legitimate
Rejected(seat) ==
    {<<apply_check(Game, seat, a), Legit(seat, a)>> : a \in ActionInputs}
        \ {<<"ok", TRUE>>, <<"ok", FALSE>>}

\* one call game.apply_action(seat, action); the hands are evaluated only
\* if the call ends in a showdown between two or more seats
Apply(seat, action) ==
    /\ \E dry \in {apply_action(Game, seat, action, NoRanks)} :
          IF Evaluated(dry.game)
          THEN \E ranks \in Deals(active_players(dry.game)) :
                 \E r \in {apply_action(Game, seat, action, ranks)} :
                    Assign(r.game, r.ret, ranks)
          ELSE Assign(dry.game, dry.ret, hand_rank)
    /\ call' = Legit(seat, action)
    /\ obs' = NoObs

\* game.apply_action(seat, action) while the hand is in progress, for every
\* seat and every action of ActionInputs.  A rejected call returns before it
\* changes anything, so the rejected calls are taken by the return they take.
ApplyAction ==
    /\ hand_number > 0
    /\ ~hand_complete
    /\ \E seat \in Seats :
         \/ \E action \in Accepted(seat) : Apply(seat, action)
         \/ \E rv \in Rejected(seat) :
               /\ Assign(Game, rv[1], hand_rank)
               /\ call' = rv[2]
               /\ obs' = NoObs
    /\ UNCHANGED <<button_seat, start_total, legal_in, legal_out, ext_vars>>

Next == StartHand \/ ApplyAction

Spec == Init /\ [][Next]_vars

(* ---------- a table whose seats play what get_legal_actions offers ------ *)

\* the list get_legal_actions returns for the seat to act
LegalNow ==
    get_legal_actions(to_state(players[action_to]), get_betting_state(Game))

\* obs = self._build_observation(action_seat) in _play_action, which the
\* runner's loop calls while the hand is not complete
BuildObservation ==
    /\ hand_number > 0
    /\ ~hand_complete
    /\ action_to # None
    /\ obs' = build_observation(Game, action_to)
    /\ UNCHANGED <<players, button_seat, hand_number, street, community_cards,
                   pot, side_pots, current_bet, min_raise, last_raiser, actions,
                   action_to, hand_complete, hand_rank, start_total, ret, call,
                   legal_in, legal_out, ext_vars>>

\* game.apply_action(game.action_to, a) for an a of get_legal_actions
ApplyLegalAction ==
    /\ hand_number > 0
    /\ ~hand_complete
    /\ action_to # None
    /\ \E i \in 1..Len(LegalNow) : Apply(action_to, LegalNow[i])
    /\ UNCHANGED <<button_seat, start_total, legal_in, legal_out, ext_vars>>

InitTable == InitWith(InitialTables \cup DeepTables)

NextTable == StartHand \/ BuildObservation \/ ApplyLegalAction

SpecTable == InitTable /\ [][NextTable]_vars

(* --------------------- tables that lead to side pots ------------------- *)

\* the table of the side-pot scenario scaled to the blinds 1/2 (the button
\* has half the stack of the blinds), a table on which the button can raise
\* all-in by more than the big blind and be called by two deeper stacks,
\* and tables with a short blind
SidePotTables ==
    { <<(<<3, 6, 6>>), 1>>, <<(<<5, 7, 7>>), 1>>, <<(<<3, 2, 2>>), 1>>,
      <<(<<5, 1, 4>>), 1>> }

InitSidePots == InitWith(SidePotTables)

SpecSidePots == InitSidePots /\ [][NextTable]_vars

(* ---------------- calls of apply_action that are rejected -------------- *)

\* game.apply_action(seat, action) for a seat and an action of ActionInputs
\* that the call rejects, the call made in full
RejectedCall ==
    /\ hand_number > 0
    /\ ~hand_complete
    /\ \E seat \in Seats :
          \E action \in {a \in ActionInputs :
                            apply_check(Game, seat, a) # "ok"} :
             Apply(seat, action)
    /\ UNCHANGED <<button_seat, start_total, legal_in, legal_out, ext_vars>>

NextRejected == StartHand \/ ApplyLegalAction \/ RejectedCall

SpecRejected == Init /\ [][NextRejected]_vars

(* ------------- calls of apply_action after the end of a hand ----------- *)

\* game.apply_action(seat, action) after the hand is complete and before the
\* next start_hand, for every seat and every action of ActionInputs.  The
\* street is SHOWDOWN, so no call reaches _showdown and no hand is evaluated.
ApplyAfterHand ==
    /\ hand_number > 0
    /\ hand_complete
    /\ \E seat \in Seats :
         \/ \E action \in Accepted(seat) :
               /\ \E r \in {apply_action(Game, seat, action, hand_rank)} :
                     Assign(r.game, r.ret, hand_rank)
               /\ call' = Legit(seat, action)
               /\ obs' = NoObs
         \/ \E rv \in Rejected(seat) :
               /\ Assign(Game, rv[1], hand_rank)
               /\ call' = rv[2]
               /\ obs' = NoObs
    /\ UNCHANGED <<button_seat, start_total, legal_in, legal_out, ext_vars>>

\* the tables of the hands that are called again after their end: every
\* heads-up table of short stacks and a three-handed table
AfterTables ==
    {<<st, b>> : st \in [1..2 -> 1..MaxShort], b \in 1..2} \cup
    { <<(<<3, 2, 2>>), 1>> }

InitAfter == InitWith(AfterTables)

NextAfter == StartHand \/ ApplyLegalAction \/ ApplyAfterHand

SpecAfter == InitAfter /\ [][NextAfter]_vars

(* ---------------- the functions of actions.py on their own -------------- *)

\* the PlayerState values passed to get_legal_actions
PlayerStates ==
    [stack : 0..MaxBet, bet_this_round : 0..MaxBet, has_acted : BOOLEAN,
     is_all_in : BOOLEAN, has_folded : BOOLEAN]

\* the BettingState values passed to get_legal_actions
BettingStates ==
    [pot : {0}, current_bet : 0..MaxBet, min_raise : 0..MaxBet,
     big_blind : 1..MaxBet, last_raiser_seat : {None},
     num_active_players : {2}]

\* legal_out = get_legal_actions(player, betting)
GetLegalActions ==
    /\ legal_in = NoInput
    /\ \E player \in PlayerStates, betting \in BettingStates :
          /\ legal_in' = [player |-> player, betting |-> betting]
          /\ legal_out' = get_legal_actions(player, betting)
    /\ UNCHANGED <<players, button_seat, hand_number, street, community_cards,
                   pot, side_pots, current_bet, min_raise, last_raiser, actions,
                   action_to, hand_complete, hand_rank, start_total, ret, call,
                   obs, ext_vars>>

InitActions == InitWith({ <<(<<6, 5>>), 1>> })

NextActions == GetLegalActions

SpecActions == InitActions /\ [][NextActions]_vars

(* ------------------ one decision of LLMAgent.get_action ----------------- *)

\* largest stack, bet and raise size in the observations given to the driver
MaxObs == 4

\* the observations _build_observation hands to the driver at the blinds
\* 1/2: the seat to act has chips and has bet no more than the bet it
\* faces, which is nothing, the big blind or a raise to twice the big blind
DriverObservations ==
    {build_observation(
        [players |-> <<[stack |-> st, bet_this_round |-> b]>>,
         current_bet |-> cb, min_raise |-> 2], 1) :
     <<st, b, cb>> \in {x \in (1..MaxObs) \X (0..2) \X {0, 2, 4} :
                          x[2] <= x[3]}}

\* the texts a reply of the model may carry
ReplyTexts ==
    {EmptyText, NoJson} \cup
    {Json(a, NoRaiseTo) : a \in {"fold", "check", "call", "raise", "bet"}} \cup
    {Json("raise", r) : r \in 0..MaxAmount}

\* what one call of LLMAdapter.call gives: a reply with or without tool
\* calls, or the RuntimeError raised when the transport keeps failing
Replies ==
    [error : {FALSE}, tool_calls : BOOLEAN, text : ReplyTexts] \cup
    {[error |-> TRUE, tool_calls |-> FALSE, text |-> EmptyText]}

\* get_action up to the loop: retries = 0
InitDriver ==
    /\ InitGame({ <<(<<6, 5>>), 1>> })
    /\ RunnerIdle
    /\ SeededIdle
    /\ OrchIdle
    /\ observation \in DriverObservations
    /\ retries = 0
    /\ turns = 0
    /\ attempts = 0
    /\ returned = NoAction
    /\ driver_pc = "while"

\* while retries <= self.max_retries: the loop is entered and
\* call_with_tools is called
WhileRetries ==
    /\ driver_pc = "while"
    /\ retries <= max_retries
    /\ attempts' = attempts + 1
    /\ turns' = 0
    /\ driver_pc' = "call_with_tools"
    /\ UNCHANGED <<observation, retries, returned, driver_rest>>

\* the rest of the loop body once call_with_tools has returned `text`:
\* empty text, unparseable text and invalid action each take a retry, a
\* valid action is returned with the retries taken so far
Respond(text) ==
    LET action == IF text.empty THEN NoAction ELSE parse_action(text) IN
    IF action # NoAction /\ validate_agent_action(action, observation)
    THEN /\ returned' = [action EXCEPT !.retries = retries]
         /\ driver_pc' = "returned"
         /\ UNCHANGED retries
    ELSE /\ retries' = retry(retries)
         /\ driver_pc' = "while"
         /\ UNCHANGED returned

\* one turn of the loop of call_with_tools, `for _ in range(max_turns)`:
\* response = self.call(...).  An exception leaves get_action's try block
\* with a retry; a reply with tool calls goes to the next turn, and the
\* last turn's reply is returned whatever it holds.
ModelCall ==
    /\ driver_pc = "call_with_tools"
    /\ turns < max_turns
    /\ turns' = turns + 1
    /\ \E response \in Replies :
          IF response.error
          THEN /\ retries' = retry(retries)
               /\ driver_pc' = "while"
               /\ UNCHANGED returned
          ELSE IF response.tool_calls /\ turns + 1 < max_turns
          THEN UNCHANGED <<retries, returned, driver_pc>>
          ELSE Respond(response.text)
    /\ UNCHANGED <<observation, attempts, driver_rest>>

\* the loop is left with retries > max_retries: the forced action
ForcedFold ==
    /\ driver_pc = "while"
    /\ ~(retries <= max_retries)
    /\ returned' = forced_action(observation, retries)
    /\ driver_pc' = "returned"
    /\ UNCHANGED <<observation, retries, turns, attempts, driver_rest>>

NextDriver == WhileRetries \/ ModelCall \/ ForcedFold

SpecDriver == InitDriver /\ [][NextDriver]_vars

\* get_action is sequential code: a step that can be taken is taken
SpecDriverLive == SpecDriver /\ WF_vars(NextDriver)

(* ---------------------- one run of TournamentRunner -------------------- *)

\* the tournaments run, as <<number of seats, starting_stack>>
Tournaments == {<<2, 2>>, <<2, 3>>, <<2, 4>>, <<3, 2>>}

\* the run is followed for this many hands
MaxHands == 2

\* the AgentAction values an agent may return to the runner
AgentActions ==
    {AgentAction(a, NoRaiseTo, f, 0) :
        a \in {"fold", "check", "call"}, f \in BOOLEAN} \cup
    {AgentAction("raise", r, f, 0) :
        r \in {NoRaiseTo} \cup 0..MaxAmount, f \in BOOLEAN}

\* TournamentRunner.__init__ and run up to its loop: every seat of the
\* AgentManager gets the starting stack, the button is on seat 1
InitRunner ==
    /\ \E n \in {t[1] : t \in Tournaments} :
          /\ InitGame({ <<[s \in 1..n |-> t[2]], 1>> :
                          t \in {u \in Tournaments : u[1] = n} })
          /\ manager_seats = [s \in 1..n |-> s]
          /\ scorer = PlacementScorer(n)
          /\ memories = [s \in 1..n |-> <<>>]
    /\ decision = NoAction
    /\ logged = NoRecord
    /\ placements = <<>>
    /\ runner_pc = "run"
    /\ RestIdle

\* the loop of run is entered: self.hand_number += 1, and _play_hand up to
\* its loop: game.start_hand and agent_manager.start_hand, which opens a new
\* hand record in the memory of every active seat
PlayHand ==
    /\ runner_pc = "run"
    /\ ~is_tournament_over(scorer)
    /\ hand_number < MaxHands
    /\ \E dry \in {start_hand(Game, hand_number + 1, NoRanks)} :
          IF Evaluated(dry)
          THEN \E ranks \in Deals(active_players(dry)) :
                 \E g \in {start_hand(Game, hand_number + 1, ranks)} :
                    Assign(g, "", ranks)
          ELSE Assign(dry, "", NoRanks)
    /\ start_total' = TotalStacks(players)
    /\ call' = NoCall
    /\ obs' = NoObs
    /\ memories' = [s \in DOMAIN memories |->
                       IF InSeq(s, manager_seats) THEN <<>> ELSE memories[s]]
    /\ decision' = NoAction
    /\ logged' = NoRecord
    /\ runner_pc' = "hand"
    /\ UNCHANGED <<button_seat, legal_in, legal_out, manager_seats, scorer,
                   placements, runner_rest>>

\* one call of _play_action in the loop of _play_hand, for every answer of
\* the agent: the answer is converted and applied, replaced by the fallback
\* if the engine rejects it, then logged and recorded to the memories
\* (nothing is logged and recorded if the fallback is rejected too)
PlayAction ==
    /\ runner_pc = "hand"
    /\ ~hand_complete
    /\ action_to # None
    /\ \E agent_action \in AgentActions :
          \E played \in {play_action(Game, agent_action)} :
             /\ decision' = agent_action
             /\ Apply(action_to, played.applied)
             /\ logged' = IF ret' = "ok" THEN played.record ELSE NoRecord
             /\ memories' =
                   IF ret' = "ok"
                   THEN record_action(memories, manager_seats,
                                      ActionRecord(played.record.street,
                                                   played.record.seat,
                                                   played.applied))
                   ELSE memories
    /\ UNCHANGED <<button_seat, start_total, legal_in, legal_out,
                   manager_seats, scorer, placements, runner_pc,
                   runner_rest>>

\* the hand is complete: _check_eliminations and game.rotate_button
CheckEliminations ==
    /\ runner_pc = "hand"
    /\ hand_complete
    /\ scorer' = check_eliminations_scorer(Game, manager_seats, scorer)
    /\ manager_seats' = check_eliminations_seats(Game, manager_seats)
    /\ button_seat' = rotate_button(Game, button_seat)
    /\ runner_pc' = "run"
    /\ UNCHANGED <<players, hand_number, street, community_cards, pot,
                   side_pots, current_bet, min_raise, last_raiser, actions,
                   action_to, hand_complete, hand_rank, start_total, ret, call,
                   obs, legal_in, legal_out, decision, logged, memories,
                   placements, runner_rest>>

\* the loop of run is left: scorer.get_placements_by_name
Placements ==
    /\ runner_pc = "run"
    /\ is_tournament_over(scorer)
    /\ placements' = calculate_placements(scorer)
    /\ runner_pc' = "done"
    /\ UNCHANGED <<engine_vars, decision, logged, memories, manager_seats,
                   scorer, runner_rest>>

NextRunner == PlayHand \/ PlayAction \/ CheckEliminations \/ Placements

SpecRunner == InitRunner /\ [][NextRunner]_vars

\* the condition of the loop "while not self.game.is_hand_complete()" in
\* _play_hand, with the early return of _play_action: a call of
\* _play_action can be made
PlayEnabled == runner_pc = "hand" /\ ~hand_complete /\ action_to # None

\* _play_hand calls _play_action again and again while the hand is not
\* complete, so a call that can be made is made.  This is WF_vars(PlayAction)
\* written out, with the loop's condition for ENABLED <<PlayAction>>_vars
\* (a call always sets decision, so it can always change the state).
SpecRunnerLive ==
    SpecRunner /\ ([]<>(~PlayEnabled) \/ []<><<PlayAction>>_vars)

(* ------------- a seeded run with fixed agents, made twice -------------- *)

\* largest seed of a TournamentConfig
MaxSeed == 2

\* the k-th element (from 0) of a finite set, in a fixed order
RECURSIVE Nth(_, _)
Nth(S, k) ==
    LET x == CHOOSE y \in S : TRUE
    IN IF k = 0 THEN x ELSE Nth(S \ {x}, k - 1)

\* Deck(seed=None): the generator is seeded from the system's entropy
Deck_unseeded(seed, entropy) == [seed |-> entropy, shuffles |-> 1]

\* Deck.__init__: random.Random(seed) and the first shuffle; the state of
\* the generator is given by the seed and the number of shuffles made
Deck(seed, entropy) == [seed |-> seed, shuffles |-> 1]

\* Deck.shuffle
shuffle(d) == [d EXCEPT !.shuffles = @ + 1]

\* the values evaluate_hand returns for the cards of the current shuffle:
\* a function of the state of the generator
deal(d, among) ==
    Nth(Deals(among), (d.seed + d.shuffles) % Cardinality(Deals(among)))

\* the agents of the tests, whose action is a function of the observation
Policies == {"MockAgent", "MockAggressiveAgent"}

\* get_action of the agents: the AgentAction for an observation
policy_action(name, o) ==
    IF name = "MockAgent" THEN AgentAction("fold", NoRaiseTo, FALSE, 0)
    ELSE IF InSeq("raise", o.legal_actions)
         THEN AgentAction("raise", o.min_raise, FALSE, 0)
         ELSE IF InSeq("call", o.legal_actions)
         THEN AgentAction("call", NoRaiseTo, FALSE, 0)
         ELSE IF InSeq("check", o.legal_actions)
         THEN AgentAction("call", NoRaiseTo, FALSE, 0)
         ELSE AgentAction("fold", NoRaiseTo, FALSE, 0)

\* TournamentConfig(num_players, starting_stack, seed)
TournamentConfig(n, stack, seed) ==
    [num_players |-> n, starting_stack |-> stack, seed |-> seed]

\* the GameState run constructs
NewGame(c) ==
    [players |-> [s \in 1..c.num_players |-> Player(c.starting_stack)],
     hand_number |-> 0, street |-> PREFLOP, community_cards |-> 0, pot |-> 0,
     side_pots |-> <<>>, current_bet |-> 0, min_raise |-> 0,
     last_raiser |-> None, actions |-> <<>>, action_to |-> None,
     hand_complete |-> FALSE]

\* the first run is constructed: TournamentRunner(config, manager) with the
\* agents added to the AgentManager
InitSeeded ==
    /\ \E t \in Tournaments, seed \in 0..MaxSeed, entropy \in 0..MaxSeed :
          /\ InitGame({ <<[s \in 1..t[1] |-> t[2]], 1>> })
          /\ config = TournamentConfig(t[1], t[2], seed)
          /\ deck = Deck(seed, entropy)
          /\ manager_seats = [s \in 1..t[1] |-> s]
          /\ scorer = PlacementScorer(t[1])
          /\ memories = [s \in 1..t[1] |-> <<>>]
          /\ agents \in [1..t[1] -> Policies]
    /\ decision = NoAction
    /\ logged = NoRecord
    /\ placements = <<>>
    /\ runner_pc = "run"
    /\ action_log = <<>>
    /\ first_log = <<>>
    /\ run_index = 1
    /\ DriverIdle
    /\ OrchIdle

\* the loop of run is entered and _play_hand reaches its loop; start_hand
\* shuffles the deck
SeededPlayHand ==
    /\ runner_pc = "run"
    /\ run_index > 0
    /\ ~is_tournament_over(scorer)
    /\ hand_number < MaxHands
    /\ deck' = shuffle(deck)
    /\ \E dry \in {start_hand(Game, hand_number + 1, NoRanks)} :
          IF Evaluated(dry)
          THEN \E ranks \in {deal(deck', active_players(dry))} :
                 \E g \in {start_hand(Game, hand_number + 1, ranks)} :
                    Assign(g, "", ranks)
          ELSE Assign(dry, "", NoRanks)
    /\ start_total' = TotalStacks(players)
    /\ call' = NoCall
    /\ obs' = NoObs
    /\ memories' = [s \in DOMAIN memories |->
                       IF InSeq(s, manager_seats) THEN <<>> ELSE memories[s]]
    /\ decision' = NoAction
    /\ logged' = NoRecord
    /\ runner_pc' = "hand"
    /\ UNCHANGED <<button_seat, legal_in, legal_out, manager_seats, scorer,
                   placements, driver_vars, orch_vars, config, agents,
                   action_log, first_log, run_index>>

\* one call of _play_action with the answer of the seat's agent; the record
\* passed to hand_logger.record_action is kept with the hand's number
SeededPlayAction ==
    /\ runner_pc = "hand"
    /\ run_index > 0
    /\ ~hand_complete
    /\ action_to # None
    /\ \E agent_action \in {policy_action(agents[action_to],
                                          build_observation(Game, action_to))} :
          \E played \in {play_action(Game, agent_action)} :
             /\ decision' = agent_action
             /\ \E dry \in {apply_action(Game, action_to, played.applied,
                                          NoRanks)} :
                   IF Evaluated(dry.game)
                   THEN \E ranks \in {deal(deck, active_players(dry.game))} :
                          \E r \in {apply_action(Game, action_to,
                                                 played.applied, ranks)} :
                             Assign(r.game, r.ret, ranks)
                   ELSE Assign(dry.game, dry.ret, hand_rank)
             /\ logged' = IF ret' = "ok" THEN played.record ELSE NoRecord
             /\ memories' =
                   IF ret' = "ok"
                   THEN record_action(memories, manager_seats,
                                      ActionRecord(played.record.street,
                                                   played.record.seat,
                                                   played.applied))
                   ELSE memories
             /\ action_log' =
                   IF ret' = "ok"
                   THEN Append(action_log, [hand_number |-> hand_number,
                                            record |-> played.record])
                   ELSE action_log
    /\ call' = NoCall
    /\ obs' = NoObs
    /\ UNCHANGED <<button_seat, start_total, legal_in, legal_out,
                   manager_seats, scorer, placements, runner_pc, driver_vars,
                   orch_vars, config, agents, deck, first_log, run_index>>

\* the run is over (or has been followed for MaxHands hands) and a second
\* run is constructed with the same seed, configuration and agents
RunAgain ==
    /\ runner_pc = "run"
    /\ run_index = 1
    /\ is_tournament_over(scorer) \/ ~(hand_number < MaxHands)
    /\ first_log' = action_log
    /\ action_log' = <<>>
    /\ run_index' = 2
    /\ \E entropy \in 0..MaxSeed : deck' = Deck(config.seed, entropy)
    /\ Assign(NewGame(config), "", [s \in 1..config.num_players |-> 0])
    /\ button_seat' = 1
    /\ start_total' = 0
    /\ call' = NoCall
    /\ obs' = NoObs
    /\ manager_seats' = [s \in 1..config.num_players |-> s]
    /\ scorer' = PlacementScorer(config.num_players)
    /\ memories' = [s \in 1..config.num_players |-> <<>>]
    /\ decision' = NoAction
    /\ logged' = NoRecord
    /\ UNCHANGED <<legal_in, legal_out, placements, runner_pc, driver_vars,
                   orch_vars, config, agents>>

\* the second run is over
RunsDone ==
    /\ runner_pc = "run"
    /\ run_index = 2
    /\ is_tournament_over(scorer) \/ ~(hand_number < MaxHands)
    /\ placements' = calculate_placements(scorer)
    /\ runner_pc' = "done"
    /\ UNCHANGED <<engine_vars, decision, logged, memories, manager_seats,
                   scorer, runner_rest>>

NextSeeded ==
    \/ SeededPlayHand
    \/ SeededPlayAction
    \/ CheckEliminations
    \/ RunAgain
    \/ RunsDone

SpecSeeded == InitSeeded /\ [][NextSeeded]_vars

(* ------------------------ the PlacementScorer alone -------------------- *)

\* the num_players the PlacementScorer is constructed with
ScorerSizes == {2, 3, 4}

\* the hand numbers eliminations are recorded with
ScorerHands == 1..(MaxHands + 1)

\* the lists of seats passed to record_multi_elimination
SeatLists(n) ==
    {<<a, b>> : a \in 1..n, b \in 1..n} \cup
    {<<a, b, c>> : a \in {1}, b \in {2}, c \in 3..n}

\* PlacementScorer(num_players)
InitScorer ==
    /\ InitGame({ <<(<<6, 5>>), 1>> })
    /\ RestIdle
    /\ decision = NoAction
    /\ logged = NoRecord
    /\ memories = <<>>
    /\ manager_seats = <<>>
    /\ scorer \in {PlacementScorer(n) : n \in ScorerSizes}
    /\ placements = <<>>
    /\ runner_pc = "idle"

\* what a call of the scorer leaves alone
scorer_rest ==
    <<engine_vars, runner_rest, decision, logged, memories, manager_seats,
      runner_pc>>

\* scorer.record_elimination(seat, hand_number), for any seat and hand
RecordElimination ==
    /\ \E seat \in 1..(scorer.num_players + 1), h \in ScorerHands :
          scorer' = record_elimination(scorer, seat, h)
    /\ placements' = <<>>
    /\ UNCHANGED scorer_rest

\* scorer.record_multi_elimination(seats, hand_number)
RecordMultiElimination ==
    /\ \E seats \in SeatLists(scorer.num_players), h \in ScorerHands :
          scorer' = record_multi_elimination(scorer, seats, h)
    /\ placements' = <<>>
    /\ UNCHANGED scorer_rest

\* placements = scorer.calculate_placements()
CalculatePlacements ==
    /\ placements' = calculate_placements(scorer)
    /\ UNCHANGED <<scorer, scorer_rest>>

NextScorer ==
    RecordElimination \/ RecordMultiElimination \/ CalculatePlacements

SpecScorer == InitScorer /\ [][NextScorer]_vars

(* ------------------------ MultiRunManager.run_all ---------------------- *)

\* largest num_runs
MaxRuns == 3

\* what _run_single comes to for a run: a TournamentResult (the hands
\* played and the winning seat), or the exception a fatal error raises
RunOutcomes ==
    [fatal : {FALSE}, total_hands : 1..MaxHands, winner : 1..2] \cup
    {[fatal |-> TRUE, total_hands |-> 0, winner |-> None]}

\* MultiRunManager.__init__
InitOrch ==
    /\ InitGame({ <<(<<6, 5>>), 1>> })
    /\ RunnerIdle
    /\ DriverIdle
    /\ SeededIdle
    /\ num_runs \in 1..MaxRuns
    /\ run_number = 0
    /\ results = <<>>
    /\ orch_pc = "loop"

\* what a step of run_all leaves alone
orch_rest == <<engine_vars, driver_vars, runner_vars, seeded_vars>>

\* one turn of `for run_number in range(1, self.num_runs + 1)`:
\* result = self._run_single(run_number) and self.results.append(result).
\* There is no try around the call, so an exception raised by the run
\* leaves run_all.
RunSingle ==
    /\ orch_pc = "loop"
    /\ run_number < num_runs
    /\ run_number' = run_number + 1
    /\ \E outcome \in RunOutcomes :
          IF outcome.fatal
          THEN /\ orch_pc' = "raised"
               /\ UNCHANGED results
          ELSE /\ results' = Append(results,
                                    [run_number |-> run_number + 1,
                                     total_hands |-> outcome.total_hands,
                                     winner |-> outcome.winner])
               /\ UNCHANGED orch_pc
    /\ UNCHANGED <<num_runs, orch_rest>>

\* the loop is over: reporter.generate_summary and return
Summary ==
    /\ orch_pc = "loop"
    /\ ~(run_number < num_runs)
    /\ orch_pc' = "returned"
    /\ UNCHANGED <<num_runs, run_number, results, orch_rest>>

NextOrch == RunSingle \/ Summary

SpecOrch == InitOrch /\ [][NextOrch]_vars

(* ------------------------------ properties ------------------------------ *)

\* the entry apply_action appended last
LastEntry == actions[Len(actions)]

\* a step in which apply_action returned (True, "")
AcceptedStep == hand_number > 0 /\ ret' = "ok" /\ obs' = NoObs

\* the seat and the action of the step
Actor == actions'[Len(actions')].seat

Acted == actions'[Len(actions')].action

IsRaise(a) == a.action_type \in {BET, RAISE, ALL_IN}

\* the seats other than the actor that could still act before the step
LiveOthers ==
    {s \in Seats \ {Actor} : ~players[s].has_folded /\ ~players[s].is_all_in}

\* the step ends the hand because all seats but one have folded
FoldOut == Cardinality({s \in Seats : ~players'[s].has_folded}) = 1

\* a raise to at least current_bet + min_raise
FullRaise == IsRaise(Acted) /\ Acted.amount >= current_bet + min_raise

\* an all-in that lifts the current bet by less than min_raise
ShortAllIn ==
    /\ IsRaise(Acted)
    /\ Acted.amount > current_bet
    /\ Acted.amount < current_bet + min_raise
    /\ Acted.amount = players[Actor].stack + players[Actor].bet_this_round

\* the seat that posted the big blind
BBSeat ==
    LET bb == SelectSeq(actions, LAMBDA a : a.action.action_type = POST_BB)
    IN IF Len(bb) > 0 THEN bb[1].seat ELSE None

RECURSIVE SumAmounts(_)
SumAmounts(pots) ==
    IF pots = <<>> THEN 0 ELSE pots[1].amount + SumAmounts(Tail(pots))

\* C1: while a hand is in progress (blinds posted, not yet paid out), the
\* stacks of all seats plus the pot add up to the stacks the hand started with
C1_ChipsConservedInHand ==
    (hand_number > 0 /\ ~hand_complete) =>
        TotalStacks(players) + pot = start_total

\* a hand in progress on a later street after an accepted raise
C1_Witness ==
    /\ hand_number > 0 /\ ~hand_complete
    /\ ret = "ok" /\ street # PREFLOP /\ last_raiser # None /\ pot >= 6

\* C2: after a hand completes the stacks of all seats add up to the stacks
\* before the hand
C2_StacksRestored == hand_complete => TotalStacks(players) = start_total

\* C3: the side pots of a showdown contain the chips of the folded seats, so
\* their amounts add up to the pot
C3_SidePotsSumToPot ==
    (hand_complete /\ Evaluated(Game) /\ side_pots # <<>>) =>
        SumAmounts(side_pots) = pot

\* C4: an all-in raise of less than the minimum raise leaves has_acted set
\* for every seat that had acted
C4_ShortAllInKeepsHasActed ==
    [][(AcceptedStep /\ ShortAllIn /\ street' = street /\ ~hand_complete') =>
          \A s \in LiveOthers : players[s].has_acted => players'[s].has_acted]_vars

\* the table after UTG (seat 4) raised to 4, the button (seat 1) 3-bet to 6
\* and the small blind (seat 2) folded, with the big blind (seat 3) to act
S3Before ==
    /\ DOMAIN players = 1..4 /\ button_seat = 1 /\ street = PREFLOP
    /\ ~hand_complete
    /\ players[4].bet_this_round = 4 /\ players[1].bet_this_round = 6
    /\ current_bet = 6 /\ last_raiser = 1
    /\ players[2].has_folded /\ ~players[3].has_folded /\ action_to = 3

\* C5: a full raise clears has_acted of every other seat that can still act
\* and keeps the street open; a street closes only when all of them have
\* acted, and has_acted is set for a seat only by its own action; in the
\* 3-bet scenario the action returns to seat 4 when seats 2 and 3 have folded
C5_FullRaiseReopens ==
    [][AcceptedStep =>
        /\ (FullRaise /\ LiveOthers # {}) =>
              /\ street' = street /\ ~hand_complete'
              /\ \A s \in LiveOthers : ~players'[s].has_acted
        /\ (street' # street /\ ~FoldOut) =>
              \A s \in LiveOthers : players[s].has_acted
        /\ \A s \in Seats \ {Actor} :
              (street' = street /\ players'[s].has_acted) => players[s].has_acted
        /\ (S3Before /\ Acted.action_type = FOLD) =>
              action_to' = 4 /\ street' = PREFLOP /\ ~hand_complete']_vars

\* the 3-bet scenario played out: seats 2 and 3 have folded to the 3-bet and
\* the action is back with seat 4, which has not acted since
C5_Witness ==
    /\ DOMAIN players = 1..4 /\ button_seat = 1 /\ street = PREFLOP
    /\ ~hand_complete /\ ret = "ok"
    /\ players[4].bet_this_round = 4 /\ players[1].bet_this_round = 6
    /\ current_bet = 6 /\ last_raiser = 1
    /\ players[2].has_folded /\ players[3].has_folded
    /\ action_to = 4 /\ ~players[4].has_acted

\* C6: a preflop round without a raise, with the big blind not all-in and
\* another seat still in the hand, closes only on the big blind's own action
C6_BigBlindOption ==
    [][(/\ AcceptedStep
        /\ street = PREFLOP /\ last_raiser = None /\ ~IsRaise(Acted)
        /\ BBSeat # None /\ ~players[BBSeat].is_all_in
        /\ ~players'[BBSeat].has_folded /\ ~FoldOut
        /\ street' # PREFLOP) => Actor = BBSeat]_vars

\* three seats saw the flop after limps and the big blind's check
C6_Witness ==
    /\ hand_number > 0 /\ ret = "ok" /\ street = FLOP /\ ~hand_complete
    /\ LastEntry.street = PREFLOP /\ LastEntry.seat = BBSeat
    /\ LastEntry.action.action_type = CHECK
    /\ Cardinality(Seats) = 3
    /\ \A s \in Seats : ~players[s].is_all_in /\ ~players[s].has_folded

\* C7: apply_action fails when the seat is not the one the action pointer
\* names or validate_action rejects the action
C7_RejectsIllegitimate ==
    (hand_number > 0 /\ ~call) => ret \in {"not_turn", "invalid"}

\* a call from the seat to act was rejected by validate_action
C7_Witness == hand_number > 0 /\ ~call /\ ret = "invalid"

\* the state between the action of the step and self._advance_action()
Mid == after_action(Game, Actor, Acted)

\* every seat that can still act has acted and matched the current bet
Settled(g) ==
    \A s \in players_to_act(g) :
        g.players[s].has_acted /\ g.players[s].bet_this_round = g.current_bet

\* C8: after an accepted action that leaves two or more seats in the hand,
\* the street closes exactly when every non-folded, non-all-in seat has
\* acted and has bet_this_round = current_bet
C8_ClosesExactlyWhenSettled ==
    [][(AcceptedStep /\ Cardinality(active_players(Mid)) > 1) =>
          ((street' # street) <=> Settled(Mid))]_vars

\* the types of the actions in a list returned by get_legal_actions
Types(list) == {list[i].action_type : i \in 1..Len(list)}

\* C9: for a player that has not folded and is not all-in, the list of
\* get_legal_actions never holds both check and call, and holds fold exactly
\* when to_call > 0
C9_LegalActionsShape ==
    (legal_in # NoInput /\ ~legal_in.player.has_folded
                        /\ ~legal_in.player.is_all_in) =>
        /\ ~(CHECK \in Types(legal_out) /\ CALL \in Types(legal_out))
        /\ FOLD \in Types(legal_out) <=>
              legal_in.betting.current_bet - legal_in.player.bet_this_round > 0

\* get_legal_actions returned fold and call for a player facing a bet
C9_Witness ==
    /\ legal_in # NoInput
    /\ ~legal_in.player.has_folded /\ ~legal_in.player.is_all_in
    /\ legal_in.betting.current_bet - legal_in.player.bet_this_round > 0
    /\ FOLD \in Types(legal_out) /\ CALL \in Types(legal_out)

CapExceeded == driver_pc = "returned" /\ retries > max_retries

\* C11 as stated: when the retry cap is exceeded, the driver returns a forced
\* action that is check if check is in the observation's legal actions and
\* fold otherwise.
C11_ForcedCheckIfLegal ==
    CapExceeded =>
        /\ returned.forced
        /\ returned.action =
              IF InSeq("check", observation.legal_actions)
              THEN "check" ELSE "fold"

\* C11 amended: when the retry cap is exceeded, the driver returns fold with
\* forced = true and no raise_to, whatever the observation's legal actions
\* are.
C11_ForcedIsFold ==
    CapExceeded =>
        /\ returned.forced
        /\ returned.action = "fold"
        /\ returned.raise_to = NoRaiseTo

\* the cap was exceeded on an observation that lists check
C11_Witness ==
    /\ CapExceeded
    /\ returned.forced
    /\ InSeq("check", observation.legal_actions)

\* C12: if the model's response is invalid on every attempt, each failed
\* attempt consumes one retry and, once the cap is reached, the action the
\* runner receives has forced = true and retries equal to maxRetries.
C12_ForcedAtMaxRetries ==
    /\ driver_pc = "while" => retries = attempts
    /\ CapExceeded =>
          /\ returned.forced
          /\ returned.retries = max_retries

\* C13: every action the driver returns with forced = false has its kind in
\* the observation's legal actions and, if it is a raise, a raise_to within
\* the observation's raise bounds (min_raise <= raise_to <= max_raise).
C13_UnforcedWithinBounds ==
    (driver_pc = "returned" /\ ~returned.forced) =>
        /\ InSeq(returned.action, observation.legal_actions)
        /\ returned.action = "raise" =>
              /\ observation.min_raise <= returned.raise_to
              /\ returned.raise_to <= observation.max_raise

\* C14: for every behaviour of the model, one driver decision terminates and
\* returns an AgentAction; each attempt's tool loop makes at most max_turns
\* model calls and the number of attempts is bounded by the retry cap.
C14_DecisionTerminates ==
    /\ [](turns <= max_turns /\ attempts <= max_retries + 1)
    /\ <>(driver_pc = "returned" /\ returned # NoAction)

\* a decision ended by the cap after every attempt used all its turns
C14_Witness ==
    /\ driver_pc = "returned"
    /\ returned.forced
    /\ turns = max_turns
    /\ attempts = max_retries + 1

\* a step of PlayAction: the runner has received an answer of the agent
PlayActionStep ==
    /\ runner_pc = "hand"
    /\ runner_pc' = "hand"
    /\ ~hand_complete
    /\ decision' # NoAction

\* the engine rejects the action converted from the answer received
EngineRejects ==
    apply_check(Game, action_to,
                convert_action(Game, decision', players[action_to],
                               build_observation(Game, action_to))) # "ok"

\* C15: when the engine rejects the action converted from an agent's
\* decision, the runner applies check if nothing is to call and fold
\* otherwise in its place, and the action applied is recorded as forced.
C15_RejectionFallback ==
    [][(PlayActionStep /\ EngineRejects) =>
          LET to_call == current_bet - players[action_to].bet_this_round
              substitute == IF to_call = 0 THEN CHECK ELSE FOLD
          IN /\ ret' = "ok"
             /\ Actor = action_to
             /\ Acted.action_type = substitute
             /\ logged' # NoRecord
             /\ logged'.seat = action_to
             /\ logged'.action = substitute
             /\ logged'.forced]_vars

\* the agent answered check to a bet without being forced, and the runner
\* logged a forced fold
C15_Witness ==
    /\ runner_pc = "hand"
    /\ decision # NoAction
    /\ logged # NoRecord
    /\ decision.action = "check"
    /\ ~decision.forced
    /\ logged.action = FOLD
    /\ logged.forced

\* the seats the scorer has registered as eliminated on hand h
Group(h) ==
    {scorer.eliminations[i].seat :
        i \in {j \in 1..Len(scorer.eliminations) :
                  scorer.eliminations[j].hand_number = h}}

\* the hands on which the scorer has registered eliminations
ElimHands ==
    {scorer.eliminations[i].hand_number : i \in 1..Len(scorer.eliminations)}

\* C16: calculate_placements gives every seat a placement such that seats
\* eliminated on the same hand share one rank, the group eliminated
\* next-earlier gets that rank plus the size of the later group (the
\* surviving seats being the latest group, with rank 1), and the sizes of the
\* rank groups sum to N.
C16_Placements ==
    placements # <<>> =>
        /\ DOMAIN placements = 1..scorer.num_players
        /\ \A s \in scorer.active_players : placements[s] = 1
        /\ \A h \in ElimHands :
              \E rank \in 1..scorer.num_players :
                 /\ \A s \in Group(h) : placements[s] = rank
                 /\ rank = 1 + Cardinality(scorer.active_players)
                             + SumOver([k \in ElimHands |->
                                          Cardinality(Group(k))],
                                       {k \in ElimHands : k > h})
        /\ SumOver([r \in 1..scorer.num_players |->
                       Cardinality({s \in DOMAIN placements :
                                       placements[s] = r})],
                   1..scorer.num_players) = scorer.num_players

\* one survivor, two seats eliminated together on a later hand than a
\* fourth seat: ranks 1, 2, 2 and 4
C16_Witness ==
    /\ placements # <<>>
    /\ scorer.num_players = 4
    /\ Cardinality(scorer.active_players) = 1
    /\ \E a, b, c \in 1..4 :
          /\ a # b
          /\ placements[a] = 2
          /\ placements[b] = 2
          /\ placements[c] = 4

\* C17: after the elimination check that follows each hand, a seat is in the
\* scorer's remaining set if and only if it is in the agent manager's active
\* seats if and only if its stack is greater than 0, and all the seats that
\* reached stack 0 in the hand are registered with that hand's number.
C17_EliminationsConsistent ==
    [][(runner_pc = "hand" /\ runner_pc' = "run") =>
          \A s \in Seats :
             /\ s \in scorer'.active_players <=> InSeq(s, manager_seats')
             /\ InSeq(s, manager_seats') <=> players'[s].stack > 0
             /\ (players[s].stack = 0 /\ InSeq(s, manager_seats)) =>
                   InSeq(Elimination(s, hand_number), scorer'.eliminations)
       ]_vars

\* two seats lost their last chips in the same hand and the check has run
C17_Witness ==
    /\ runner_pc = "run"
    /\ Len(scorer.eliminations) = 2
    /\ scorer.eliminations[1].hand_number = hand_number
    /\ scorer.eliminations[2].hand_number = hand_number
    /\ \A i \in 1..2 : players[scorer.eliminations[i].seat].stack = 0

\* C18: if one tournament run ends in a fatal error, the orchestrator
\* records the failure and still executes every remaining run: run_all is
\* not left, by its return or by an exception, before every run has been
\* started.
C18_RunsIsolated ==
    orch_pc \in {"returned", "raised"} => run_number = num_runs

PlayHandStep ==
    /\ runner_pc = "run"
    /\ runner_pc' = "hand"

\* the seats that are active for the agent manager after the step
ActiveSeats == { s \in DOMAIN memories' : InSeq(s, manager_seats') }

\* C20: for every hand, the actions recorded in each active seat's memory
\* appear in the same order as in the engine's action log, and every active
\* seat's memory records the same sequence: the memories of the active
\* seats are empty when the engine's log holds the blinds only, every entry
\* the engine appends for a player's action is appended, with its street,
\* seat, action and amount, to the memory of every active seat, and the
\* memories change at no other moment of the hand.
C20_MemoryOrder ==
    [][/\ PlayHandStep =>
             /\ \A s \in ActiveSeats : memories'[s] = <<>>
             /\ \A i \in 1..Len(actions') :
                    actions'[i].action.action_type \in {POST_SB, POST_BB}
       /\ PlayActionStep =>
             IF ret' = "ok"
             THEN /\ \A s \in ActiveSeats :
                        memories'[s] =
                            Append(memories[s],
                                   ActionRecord(actions'[Len(actions')].street,
                                                Actor, Acted))
                  /\ \A s, t \in ActiveSeats : memories'[s] = memories'[t]
                  /\ Actor = action_to
             ELSE /\ memories' = memories
                  /\ actions' = actions]_vars

\* two seats are active, both have acted in the hand, and the memories of
\* both hold the two actions
C20_Witness ==
    /\ runner_pc = "hand"
    /\ ret = "ok"
    /\ \E s, t \in DOMAIN memories :
          /\ s # t
          /\ InSeq(s, manager_seats)
          /\ InSeq(t, manager_seats)
          /\ Len(memories[s]) >= 2
          /\ memories[s] = memories[t]
          /\ memories[s][1].seat # memories[s][2].seat

\* the seat left in the hand after the step
Remaining == CHOOSE s \in Seats : ~players'[s].has_folded

\* C21: as soon as all seats but one have folded, the hand is complete, no
\* further community cards are dealt, and the remaining seat's stack is
\* increased by the entire pot.
C21_FoldOutEndsHand ==
    [][(AcceptedStep /\ ~hand_complete /\ Acted.action_type = FOLD /\ FoldOut) =>
          /\ hand_complete'
          /\ community_cards' = community_cards
          /\ players'[Remaining].stack = players[Remaining].stack + pot
          /\ \A s \in Seats \ {Remaining} : players'[s].stack = players[s].stack]_vars

\* a three-handed hand ended on the flop by the folds of two seats, with
\* more than the blinds in the pot
C21_Witness ==
    /\ hand_number > 0 /\ hand_complete /\ ret = "ok"
    /\ Cardinality(Seats) = 3
    /\ LastEntry.action.action_type = FOLD
    /\ LastEntry.street = FLOP
    /\ community_cards = 3
    /\ Cardinality({s \in Seats : ~players[s].has_folded}) = 1
    /\ pot > 3

\* the seats in the hand and the seats able to act after the step
ActiveAfter == {s \in Seats : ~players'[s].has_folded}

AbleAfter == {s \in ActiveAfter : ~players'[s].is_all_in}

\* C22: if, after a street closes, at most one non-folded seat is still able
\* to act (not all-in) while two or more seats are non-folded, no further
\* action is requested from any seat: the remaining community cards are
\* dealt and the hand completes at showdown with exactly five community
\* cards.
C22_RunOutBoard ==
    [][(/\ hand_number' > 0
        /\ street' # street
        /\ Cardinality(ActiveAfter) >= 2
        /\ Cardinality(AbleAfter) <= 1) =>
          /\ hand_complete'
          /\ street' = SHOWDOWN
          /\ community_cards' = 5]_vars

\* a three-handed hand in which the flop was bet, one seat is all-in and one
\* seat has chips behind: the board was run out to five cards
C22_Witness ==
    /\ hand_number > 0 /\ hand_complete /\ ret = "ok"
    /\ street = SHOWDOWN
    /\ community_cards = 5
    /\ LastEntry.street = FLOP
    /\ Cardinality(active_players(Game)) >= 2
    /\ Cardinality(players_to_act(Game)) = 1

\* C23: once a hand is complete, apply_action rejects every action from
\* every seat, and no stack, pot or action-log entry changes until the next
\* start_hand.
C23_CompleteHandFrozen ==
    [][(hand_number > 0 /\ hand_complete /\ hand_number' = hand_number) =>
          /\ ret' # "ok"
          /\ players' = players
          /\ pot' = pot
          /\ actions' = actions]_vars

C25_PointerCanAct ==
    (hand_number > 0 /\ ~hand_complete) =>
        /\ action_to \in Seats
        /\ ~players[action_to].has_folded
        /\ ~players[action_to].is_all_in
        /\ apply_check(Game, action_to,
                       fallback_action(Game, players[action_to])) = "ok"

\* a later street is being bet with a seat all-in: the pointer is on a seat
\* that faces a bet
C25_Witness ==
    /\ hand_number > 0 /\ ~hand_complete
    /\ street # PREFLOP
    /\ \E s \in Seats : players[s].is_all_in /\ ~players[s].has_folded
    /\ action_to \in Seats
    /\ current_bet - players[action_to].bet_this_round > 0

\* the seats of a side pot's eligible set that hold its best hand
BestOf(p) ==
    {s \in p.eligible : \A t \in p.eligible : hand_rank'[s] <= hand_rank'[t]}

\* the least and the most a seat can get of the side pots that are awarded
\* to the best hands of their eligible sets and split evenly among them
RECURSIVE LeastOf(_, _)
LeastOf(pots, s) ==
    IF pots = <<>> THEN 0
    ELSE (IF s \in BestOf(pots[1])
          THEN pots[1].amount \div Cardinality(BestOf(pots[1])) ELSE 0)
         + LeastOf(Tail(pots), s)

RECURSIVE MostOf(_, _)
MostOf(pots, s) ==
    IF pots = <<>> THEN 0
    ELSE (IF s \in BestOf(pots[1])
          THEN (pots[1].amount + Cardinality(BestOf(pots[1])) - 1)
                   \div Cardinality(BestOf(pots[1]))
          ELSE 0)
         + MostOf(Tail(pots), s)

\* the step ends in a showdown between two or more seats with side pots
SidePotShowdown ==
    /\ AcceptedStep
    /\ ~hand_complete
    /\ hand_complete'
    /\ Cardinality(ActiveAfter) > 1
    /\ side_pots' # <<>>

\* the side-pot scenario: seat 1 went all-in for 3, seats 2 and 3 for 6
S5AllIn ==
    /\ DOMAIN players = 1..3
    /\ LastEntry.street = PREFLOP
    /\ \A s \in Seats : players'[s].is_all_in /\ ~players'[s].has_folded
    /\ Mid.players[1].bet_this_hand = 3
    /\ Mid.players[2].bet_this_hand = 6
    /\ Mid.players[3].bet_this_hand = 6

\* C26: at showdown each side pot is awarded only to seats in its eligible
\* set, to the best hand among them; in the side-pot scenario (stacks 3, 6
\* and 6, all all-in preflop) the main pot is 9 with all three seats
\* eligible and the side pot is 6 with seats 2 and 3 eligible, so seat 1
\* holding the best hand receives exactly 9 and the better of seats 2 and 3
\* receives 6.
C26_SidePotsToEligible ==
    [][SidePotShowdown =>
          /\ \A s \in Seats :
                /\ players'[s].stack - Mid.players[s].stack
                      >= LeastOf(side_pots', s)
                /\ players'[s].stack - Mid.players[s].stack
                      <= MostOf(side_pots', s)
          /\ S5AllIn =>
                /\ side_pots' = << [amount |-> 9, eligible |-> {1, 2, 3}],
                                   [amount |-> 6, eligible |-> {2, 3}] >>
                /\ (hand_rank'[1] < hand_rank'[2] /\ hand_rank'[1] < hand_rank'[3]) =>
                      /\ players'[1].stack = 9
                      /\ hand_rank'[2] < hand_rank'[3] => players'[2].stack = 6
                      /\ hand_rank'[3] < hand_rank'[2] => players'[3].stack = 6]_vars

\* the side-pot scenario played out: seat 1 held the best hand and has the
\* main pot of 9, seat 3 held the second best and has the side pot of 6
C26_Witness ==
    /\ hand_number > 0 /\ hand_complete /\ ret = "ok"
    /\ DOMAIN players = 1..3
    /\ LastEntry.street = PREFLOP
    /\ side_pots = << [amount |-> 9, eligible |-> {1, 2, 3}],
                      [amount |-> 6, eligible |-> {2, 3}] >>
    /\ hand_rank = <<1, 3, 2>>
    /\ players[1].stack = 9 /\ players[2].stack = 0 /\ players[3].stack = 6

\* the step ends in a showdown between two or more seats
ShowdownStep ==
    /\ AcceptedStep
    /\ ~hand_complete
    /\ hand_complete'
    /\ Cardinality(ActiveAfter) > 1

\* the pots awarded at the showdown of the step: the side pots, or the whole
\* pot for the seats in the hand when there are none
PotsAwarded ==
    IF side_pots' # <<>> THEN side_pots'
    ELSE << [amount |-> pot', eligible |-> ActiveAfter] >>

\* the share of pot p for seat s when the leftover chips go one each to the
\* winners clockwise from the first winner to the left of the button
ClockwiseShare(p, s) ==
    LET winners == InOrder(BestOf(p))
    IN IF s \in BestOf(p)
       THEN p.amount \div Len(winners)
            + (IF IndexOf(winners, s) < p.amount % Len(winners) THEN 1 ELSE 0)
       ELSE 0

RECURSIVE ClockwiseGain(_, _)
ClockwiseGain(pots, s) ==
    IF pots = <<>> THEN 0
    ELSE ClockwiseShare(pots[1], s) + ClockwiseGain(Tail(pots), s)

\* C27: when a pot does not divide evenly among its tied winners, every
\* winner receives the floor share and the leftover chips go one each to
\* winners in clockwise order starting with the first winner to the left of
\* the button.
C27_RemainderClockwise ==
    [][ShowdownStep =>
          \A s \in Seats :
              players'[s].stack - Mid.players[s].stack =
                  ClockwiseGain(PotsAwarded, s)]_vars

\* C28: min_raise is at all times the size of the last full raise of the
\* street floored at the big blind: after a full raise it becomes the new
\* current bet minus the previous current bet (at least the big blind), and
\* actions that are not full raises do not change it.
C28_MinRaiseIsLastFullRaise ==
    [][AcceptedStep =>
          IF FullRaise
          THEN Mid.min_raise = Max(Mid.current_bet - current_bet,
                                   get_blinds(hand_number).bb)
          ELSE Mid.min_raise = min_raise]_vars

\* C29: apply_action accepts a raise whose amount is below current_bet +
\* min_raise only when that raise puts the seat all-in, i.e. its amount
\* equals the seat's stack plus its bet_this_round; any other raise below
\* the minimum is rejected.
C29_BelowMinimumOnlyAllIn ==
    [][(/\ AcceptedStep
        /\ IsRaise(Acted)
        /\ current_bet > 0
        /\ Acted.amount < current_bet + min_raise) =>
          Acted.amount = players[Actor].stack + players[Actor].bet_this_round]_vars

\* C30: when a street closes and the hand continues, bet_this_round is 0
\* for every seat, current_bet is 0 and min_raise equals the big blind at
\* the start of the next street.
C30_StreetReset ==
    [][(AcceptedStep /\ street' # street /\ ~hand_complete') =>
          /\ \A s \in Seats : players'[s].bet_this_round = 0
          /\ current_bet' = 0
          /\ min_raise' = get_blinds(hand_number).bb]_vars

\* a step of start_hand after which the preflop betting is open: nothing
\* has changed since _post_blinds returned but the action pointer
StartHandStep ==
    /\ hand_number' # hand_number
    /\ street' = PREFLOP
    /\ ~hand_complete'

\* the seats dealt into the hand the step starts
DealtIn == {s \in Seats : ~players'[s].has_folded}

\* C31: after the blinds are posted at start_hand with two or more active
\* seats, current_bet equals the big blind of the hand's level, min_raise
\* equals the big blind and last_raiser is None.
C31_BlindsSetBet ==
    [][(StartHandStep /\ Cardinality(DealtIn) >= 2) =>
          /\ current_bet' = get_blinds(hand_number').bb
          /\ min_raise' = get_blinds(hand_number').bb
          /\ last_raiser' = None]_vars

\* the number of seats passed clockwise from the seat after `from` to s:
\* the seat after `from` comes first and `from` itself last
Clockwise(from, s) ==
    (s - from - 1 + Cardinality(Seats)) % Cardinality(Seats)

\* the first seat of S clockwise after `from`
FirstAfter(from, S) ==
    CHOOSE s \in S : \A t \in S : Clockwise(from, s) <= Clockwise(from, t)

\* the entry of the hand's log for a blind
BlindEntry(type) ==
    SelectSeq(actions', LAMBDA a : a.action.action_type = type)[1]

\* the entry is the blind `amount` posted from the stack the seat had, all
\* of it and all-in when the stack is short of the blind
PostedFrom(entry, amount) ==
    /\ entry.action.amount = Min(amount, players[entry.seat].stack)
    /\ players[entry.seat].stack < amount => entry.action.is_all_in
    /\ players'[entry.seat].is_all_in = entry.action.is_all_in

\* C32: at start_hand with three or more active seats the first active seat
\* clockwise after the button posts the small blind and the next active seat
\* the big blind; with exactly two active seats the button posts the small
\* blind and the other seat the big blind; a seat with fewer chips than its
\* blind posts its whole stack and is all-in.
C32_BlindSeats ==
    [][(hand_number' # hand_number /\ Cardinality(DealtIn) >= 2) =>
          LET sb == BlindEntry(POST_SB)
              bb == BlindEntry(POST_BB)
          IN /\ IF Cardinality(DealtIn) = 2
                THEN sb.seat = button_seat' /\ bb.seat \in DealtIn \ {sb.seat}
                ELSE /\ sb.seat = FirstAfter(button_seat', DealtIn)
                     /\ bb.seat = FirstAfter(sb.seat, DealtIn)
             /\ PostedFrom(sb, get_blinds(hand_number').sb)
             /\ PostedFrom(bb, get_blinds(hand_number').bb)]_vars

\* a heads-up hand whose button posted the small blind and whose other seat
\* posted a big blind of 1, its whole stack
C32_Witness ==
    /\ hand_number = 1
    /\ street = PREFLOP
    /\ Cardinality(Seats) = 2
    /\ actions[1].action.action_type = POST_SB
    /\ actions[1].seat = button_seat
    /\ actions[2].action = Action(POST_BB, 1, TRUE)
    /\ players[actions[2].seat].stack = 0
    /\ players[actions[2].seat].is_all_in

\* the seats that can act after the step: not folded and not all-in
AbleNext == {s \in Seats : ~players'[s].has_folded /\ ~players'[s].is_all_in}

\* C33: after start_hand the first seat to act preflop is the first seat
\* able to act clockwise after the big-blind seat when three or more seats
\* are active, and the button when the hand is heads-up (the button is the
\* seat after the big blind there).
C33_FirstToActPreflop ==
    [][(StartHandStep /\ Cardinality(DealtIn) >= 2) =>
          /\ action_to' = FirstAfter(BlindEntry(POST_BB).seat, AbleNext)
          /\ (Cardinality(DealtIn) = 2 /\ button_seat' \in AbleNext)
                => action_to' = button_seat']_vars

\* a step that closes a street and opens the betting of the next one
NewStreetStep ==
    /\ hand_number > 0
    /\ street' # street
    /\ street' \in {FLOP, TURN, RIVER}
    /\ ~hand_complete'

\* C34: at the start of the flop, the turn and the river the action pointer
\* is the first non-folded, non-all-in seat clockwise from the button: the
\* seat after the button is considered first and the button itself last.
C34_FirstToActPostflop ==
    [][NewStreetStep => action_to' = FirstAfter(button_seat', AbleNext)]_vars

\* the flop of a four-handed hand opens: the seat after the button is
\* all-in, the pointer has passed it, and the button acts last
C34_Witness ==
    /\ Cardinality(Seats) = 4
    /\ street = FLOP
    /\ ~hand_complete
    /\ current_bet = 0
    /\ \A s \in Seats : ~players[s].has_acted
    /\ button_seat = 1
    /\ players[2].is_all_in /\ ~players[2].has_folded
    /\ ~players[3].is_all_in /\ ~players[3].has_folded
    /\ ~players[1].is_all_in /\ ~players[1].has_folded
    /\ action_to = 3

C36_NoChipsIsAllIn ==
    (hand_number > 0 /\ ~hand_complete) =>
        /\ \A s \in Seats :
              (~players[s].has_folded /\ players[s].stack = 0)
                  => players[s].is_all_in
        /\ action_to # None => players[action_to].stack > 0

\* the engine action _play_action converts the answer received into
Converted ==
    convert_action(Game, decision', players[action_to],
                   build_observation(Game, action_to))

\* C37: for any raise_to value an agent submits, the engine action produced
\* from the raise has its raise-to amount inside
\* [min_raise_to, stack + bet_this_round].
C37_RaiseClamped ==
    [][(PlayActionStep /\ decision'.action = "raise") =>
          /\ Converted.action_type \in {BET, RAISE}
          /\ Converted.amount >= current_bet + min_raise
          /\ Converted.amount <= players[action_to].stack
                                   + players[action_to].bet_this_round]_vars

\* the step of run after a hand: _check_eliminations and rotate_button
RotateStep ==
    /\ runner_pc = "hand"
    /\ runner_pc' = "run"

\* C38: after each hand the button moves to the first seat with stack > 0
\* found clockwise (ascending seat number, wrapping around) after the
\* previous button seat, so the button seat has chips whenever the next hand
\* starts.
C38_ButtonRotates ==
    [][/\ RotateStep =>
            button_seat' =
                FirstAfter(button_seat, {s \in Seats : players[s].stack > 0})
       /\ (PlayHandStep /\ hand_number > 0) =>
            players[button_seat].stack > 0]_vars

\* after the first hand of a three-handed tournament the seat after the
\* button is out of chips and the button has passed it
C38_Witness ==
    /\ runner_pc = "run"
    /\ hand_number = 1
    /\ Cardinality(Seats) = 3
    /\ players[2].stack = 0
    /\ players[1].stack > 0
    /\ button_seat = 3

\* a step in which apply_action returned (False, error)
RejectedStep ==
    /\ hand_number > 0
    /\ hand_number' = hand_number
    /\ ret' \in {"not_turn", "invalid"}

\* C39: a call of apply_action that is rejected (wrong seat or invalid
\* action) leaves the whole game state unchanged: stacks, bets, pot,
\* current_bet, min_raise, the has_acted, has_folded and is_all_in flags,
\* the action pointer, the street, the community cards and the action log.
C39_RejectedChangesNothing ==
    [][RejectedStep =>
          UNCHANGED <<players, button_seat, hand_number, street,
                      community_cards, pot, side_pots, current_bet, min_raise,
                      last_raiser, actions, action_to, hand_complete>>]_vars

\* on the flop, after a bet, a call of apply_action was rejected by
\* validate_action
C39_Witness ==
    /\ street = FLOP
    /\ ~hand_complete
    /\ current_bet > 0
    /\ LastEntry.action.action_type = BET
    /\ ret = "invalid"

\* result.pots_awarded.get(seat, 0)
AwardedTo(result, s) ==
    IF s \in DOMAIN result.pots_awarded THEN result.pots_awarded[s] ELSE 0

\* C40: for every completed hand the pots_awarded map of the hand result
\* equals, seat by seat, the chips added to the stacks at the payout, and
\* its values sum to the pot.
C40_PotsAwardedIsPayout ==
    [][(AcceptedStep /\ ~hand_complete /\ hand_complete') =>
          LET result == get_hand_result(Game', hand_rank')
          IN /\ \A s \in Seats :
                   AwardedTo(result, s) =
                       players'[s].stack - Mid.players[s].stack
             /\ SumOver([s \in Seats |-> AwardedTo(result, s)], Seats) = pot']_vars

====
